---- MODULE Spec2Model ----
(***************************************************************************)
(* Reactive core of Vue 2: Dep, Watcher, the scheduler queue and nextTick.  *)
(*                                                                         *)
(* JavaScript runs one job at a time.  A step of the model is one job cut  *)
(* at the points where the code itself loops over a list that may change:  *)
(* a host job (user code calling a public entry point), the start of       *)
(* flushCallbacks, one callback of its copies loop, one iteration of the   *)
(* flushSchedulerQueue loop, and the end of each loop.  Everything a step   *)
(* calls synchronously (notify -> update -> run -> get -> callback ...) is *)
(* computed inside the step by operators that map a state record to a      *)
(* state record.                                                           *)
(*                                                                         *)
(* Reactive data is the record {x, y} of primitives; each member has one   *)
(* Dep, named after the member.  Getters only read (reactive members, a    *)
(* plain closure variable, a computed property); watch callbacks and       *)
(* nextTick callbacks have side effects.                                   *)
(***************************************************************************)
EXTENDS Integers, Sequences, FiniteSets, TLC

\* ------------------------------------------------------------------ bounds
MaxWatchers == 2
MaxOps == 4
MaxFlushRuns == 102

\* ------------------------------------------------------- program constants
MAX_UPDATE_COUNT == 100

Fields == {"x", "y"}
Vals == {1, 2}
Undef == 0      \* undefined / null
NoTarget == 0   \* Dep.target null or undefined

VARIABLES
  data,         \* val closed over by each reactive member
  plain,        \* a non-reactive variable a getter may consult
  subs,         \* Dep.subs of each member's Dep
  target,       \* Dep.target
  targetStack,  \* targetStack
  W,            \* the Watcher objects, by id
  uid,          \* watcher uid counter
  comp,         \* vm._computedWatchers[key] (0: none)
  queue, has, waiting, flushing, index,   \* scheduler state
  callbacks, pending,                     \* nextTick state
  timers,       \* flushCallbacks invocations handed to the host, not started
  copies, ci,   \* flushCallbacks' copies and loop counter i
  pc,           \* position of the running job
  ops,          \* host jobs so far
  seq, done,    \* nextTick calls so far / batcher callbacks executed so far
  calls,        \* watcher callback invocations of the current job
  gets,         \* getter invocations of the current job
  creads,       \* computed-property reads of the current job
  fired,        \* per watcher: Deps whose depend() reached it in its last get
  subAt,        \* per watcher: Deps it was subscribed to when its last get ended
  pre,          \* per watcher: value when the running flush began
  touched,      \* watchers whose update() was called during the running flush
  insAt,        \* per queue entry: 0 if pushed before the flush,
                \* else index+1 at the time it was spliced in
  pushed,       \* the queue as it was when the running flush began, unsorted
  inBrowser,    \* the host is a browser (with a console)
  errh,         \* config.errorHandler: "none", or what it does when called
  errs,         \* calls of handleError in the current job
  aborted,      \* jobs left by an exception so far: what each was running
  throws,       \* gets of the current job whose getter threw
  heap,         \* the objects user code holds: members, elements, __ob__
  depUid,       \* Deps made for the heap so far (uid of dep.js)
  notified,     \* Deps whose notify() was called in the current job
  op,           \* the call the current host job made on the heap, its result
  promises,     \* the promises nextTick returned: the numbers of the calls
                \* that made one, and of those whose promise is resolved
  notifies,     \* the notify() calls of the current job: the Dep, its subs
                \* when the call began, the watchers it called update() on
  depends,      \* the depend() calls of the current job: the Dep, Dep.target
                \* and targetStack at the call
  runs,         \* the run() calls of the current job, in the order they
                \* returned: the watcher, what get returned against the
                \* stored value, whether the callback was invoked
  updates,      \* the update() calls of the current job, in the order they
                \* returned: the watcher and what the call did
  splices       \* the splices of queueWatcher in the current job: the
                \* watcher, its position, the position of the running
                \* watcher and the queue behind that one after the splice

vars == <<data, plain, subs, target, targetStack, W, uid, comp,
          queue, has, waiting, flushing, index, callbacks, pending, timers,
          copies, ci, pc, ops, seq, done, calls, gets, creads, fired, subAt,
          pre, touched, insAt, pushed, inBrowser, errh, errs, aborted,
          throws, heap, depUid, notified, op, promises, notifies,
          depends, runs, updates, splices>>

\* The state as one record, threaded through the synchronous calls.
\* ret carries a return value out of an operator (retl when it is a new
\* array), exc an exception in flight.
St ==
  [data |-> data, plain |-> plain, subs |-> subs, target |-> target,
   targetStack |-> targetStack, W |-> W, uid |-> uid, comp |-> comp,
   queue |-> queue, has |-> has, waiting |-> waiting, flushing |-> flushing,
   index |-> index, callbacks |-> callbacks, pending |-> pending,
   timers |-> timers, copies |-> copies, ci |-> ci, pc |-> pc, ops |-> ops,
   seq |-> seq, done |-> done, calls |-> calls, gets |-> gets,
   creads |-> creads, fired |-> fired, subAt |-> subAt, pre |-> pre,
   touched |-> touched, insAt |-> insAt, pushed |-> pushed,
   inBrowser |-> inBrowser, errh |-> errh, errs |-> errs, aborted |-> aborted,
   throws |-> throws, heap |-> heap, depUid |-> depUid,
   notified |-> notified, op |-> op, promises |-> promises,
   notifies |-> notifies, depends |-> depends, runs |-> runs,
   updates |-> updates,
   splices |-> splices,
   ret |-> Undef, retl |-> <<>>, exc |-> FALSE]

Commit(s) ==
  /\ data' = s.data /\ plain' = s.plain /\ subs' = s.subs
  /\ target' = s.target /\ targetStack' = s.targetStack
  /\ W' = s.W /\ uid' = s.uid /\ comp' = s.comp
  /\ queue' = s.queue /\ has' = s.has /\ waiting' = s.waiting
  /\ flushing' = s.flushing /\ index' = s.index
  /\ callbacks' = s.callbacks /\ pending' = s.pending /\ timers' = s.timers
  /\ copies' = s.copies /\ ci' = s.ci /\ pc' = s.pc /\ ops' = s.ops
  /\ seq' = s.seq /\ done' = s.done /\ calls' = s.calls /\ gets' = s.gets
  /\ creads' = s.creads /\ fired' = s.fired /\ subAt' = s.subAt
  /\ pre' = s.pre /\ touched' = s.touched /\ insAt' = s.insAt
  /\ pushed' = s.pushed
  /\ inBrowser' = s.inBrowser /\ errh' = s.errh /\ errs' = s.errs
  /\ aborted' = s.aborted /\ throws' = s.throws
  /\ heap' = s.heap /\ depUid' = s.depUid /\ notified' = s.notified
  /\ op' = s.op /\ promises' = s.promises /\ splices' = s.splices
  /\ notifies' = s.notifies /\ updates' = s.updates
  /\ depends' = s.depends /\ runs' = s.runs

\* ------------------------------------------------------------ sequences
Range(q) == {q[i] : i \in 1..Len(q)}

Count(q, e) == Cardinality({i \in 1..Len(q) : q[i] = e})

InsertAt(q, k, e) ==          \* q.splice(k, 0, e), k a JavaScript position
  SubSeq(q, 1, k) \o <<e>> \o SubSeq(q, k + 1, Len(q))

\* remove(arr, item): delete the first occurrence, if any
Remove(q, e) ==
  IF e \in Range(q)
    THEN LET k == CHOOSE i \in 1..Len(q) : q[i] = e /\ \A j \in 1..(i - 1) : q[j] # e
         IN SubSeq(q, 1, k - 1) \o SubSeq(q, k + 1, Len(q))
    ELSE q

\* ------------------------------------------------------------------- Dep
AddSub(s, d, w) == [s EXCEPT !.subs[d] = Append(@, w)]

RemoveSub(s, d, w) == [s EXCEPT !.subs[d] = Remove(@, w)]

PushTarget(s, t) ==
  [s EXCEPT !.targetStack = Append(@, t), !.target = t]

PopTargetClears(s) ==
  [s EXCEPT !.targetStack = SubSeq(@, 1, Len(@) - 1), !.target = NoTarget]

\* popTarget()
PopTarget(s) ==
  LET st == SubSeq(s.targetStack, 1, Len(s.targetStack) - 1)
  IN [s EXCEPT !.targetStack = st,
               !.target = IF Len(st) = 0 THEN NoTarget ELSE st[Len(st)]]

\* ----------------------------------------------------------- handleError
\* logError: console.error(err) on a browser host, throw err elsewhere
LogErrorThrows(s) == ~s.inBrowser

\* globalHandleError: a config.errorHandler that returns ends the chain; one
\* that throws, or none, leaves the error (its own or the first) to logError
GlobalHandleErrorThrows(s) ==
  IF s.errh = "ok" THEN FALSE ELSE LogErrorThrows(s)

\* handleError(err, vm, info) for a vm without $parent: the chain runs with
\* Dep.target cleared; exc tells whether handleError itself throws
HandleError(s, info) ==
  LET s1 == PushTarget([s EXCEPT !.exc = FALSE], NoTarget)
      s2 == [s1 EXCEPT !.errs = Append(@, info)]
      s3 == PopTarget(s2)
  IN [s3 EXCEPT !.exc = GlobalHandleErrorThrows(s3)]

\* ------------------------------------------------------------- Observer
\* Values: 0 is undefined, 1 and 2 are numbers, NaN is NaN, and the
\* numbers from 10 on are references to the objects of heap.
NaN == 0 - 1

ROOT == 10    \* the data object of the vm
LIST == 11    \* data.list
REC == 12     \* data.rec
ELEM == 13    \* data.list[0]
PLAIN == 14   \* an object user code holds that is not part of data
FROZEN == 15  \* Object.freeze({k: 1})
VM == 16      \* a Vue instance
VNODE == 17   \* a VNode
FLIST == 18   \* Object.freeze([rec]), rec being data.rec
INNER == 19   \* an array that is an element of data.list

IsObject(v) == v >= ROOT

\* ===
StrictEq(a, b) == a = b /\ a # NaN

\* An object of heap: kind "rec" (plain record) or "arr" (array); props maps
\* each own key of a record to [val, reactive, dep, childOb], where reactive
\* tells whether defineReactive installed a getter/setter pair, dep names the
\* Dep of its closure and childOb the Observer of its closure (the id of the
\* object observed, 0 for none); items are the elements of an array; ob tells
\* whether the object carries __ob__, obdep names ob.dep, vmCount is
\* ob.vmCount; ext is Object.isExtensible, isVue is _isVue, vnode is
\* instanceof VNode.
\* an object no Observer has seen
Obj(kind, props, items) ==
  [kind |-> kind, props |-> props, items |-> items, ob |-> FALSE,
   obdep |-> "", vmCount |-> 0, ext |-> TRUE, isVue |-> FALSE,
   vnode |-> FALSE]

\* a data property: no getter/setter pair
PlainProp(v) == [val |-> v, reactive |-> FALSE, dep |-> "", childOb |-> 0]

IsArray(s, v) == IsObject(v) /\ s.heap[v].kind = "arr"

\* the order in which Object.keys lists the keys the objects of heap use
KeySeq == <<"list", "rec", "n", "fl", "k", "j">>

DepName(n) == "d" \o ToString(n)

\* new Dep(): uid++, subs = []
NewDep(s) ==
  LET n == DepName(s.depUid + 1)
  IN [s EXCEPT !.depUid = @ + 1,
               !.subs = [d \in (DOMAIN s.subs) \cup {n} |->
                           IF d \in DOMAIN s.subs THEN s.subs[d] ELSE <<>>]]

SetKey(f, k, e) == [x \in (DOMAIN f) \cup {k} |-> IF x = k THEN e ELSE f[x]]

DelKey(f, k) == [x \in (DOMAIN f) \ {k} |-> f[x]]

\* the test of observe for making a new Observer (shouldObserve is true,
\* no server rendering, the value is an array or a plain object)
Observable(o) == o.ext /\ ~o.isVue

HasObserverNever(o) == FALSE

\* hasOwn(value, '__ob__') && value.__ob__ instanceof Observer
HasObserver(o) == o.ob

RECURSIVE Observe(_, _, _), NewObserver(_, _), Walk(_, _, _),
          ObserveArray(_, _, _), DefineReactive(_, _, _, _)

\* observe(value, asRootData); ret is the Observer (the id of its object)
\* or 0
Observe(s, v, asRootData) ==
  IF ~IsObject(v) \/ s.heap[v].vnode THEN [s EXCEPT !.ret = 0]
  ELSE LET s1 == IF HasObserver(s.heap[v]) THEN s
                 ELSE IF Observable(s.heap[v]) THEN NewObserver(s, v)
                 ELSE s
           got == s1.heap[v].ob
           s2 == IF asRootData /\ got
                   THEN [s1 EXCEPT !.heap[v].vmCount = @ + 1]
                   ELSE s1
       IN [s2 EXCEPT !.ret = IF got THEN v ELSE 0]

\* new Observer(value)
NewObserver(s, v) ==
  LET s1 == NewDep(s)
      s2 == [s1 EXCEPT !.heap[v].ob = TRUE,
                       !.heap[v].obdep = DepName(s1.depUid),
                       !.heap[v].vmCount = 0]
  IN IF s2.heap[v].kind = "arr"
       THEN ObserveArray(s2, s2.heap[v].items, 1)
       ELSE Walk(s2, v, 1)

\* walk(obj): defineReactive(obj, keys[i]) for each own key
Walk(s, v, i) ==
  IF i > Len(KeySeq) THEN s
  ELSE IF KeySeq[i] \in DOMAIN s.heap[v].props
    THEN Walk(DefineReactive(s, v, KeySeq[i], s.heap[v].props[KeySeq[i]].val),
              v, i + 1)
    ELSE Walk(s, v, i + 1)

\* observeArray(items): observe(items[i]) for each element
ObserveArray(s, items, i) ==
  IF i > Len(items) THEN s
  ELSE ObserveArray(Observe(s, items[i], FALSE), items, i + 1)

\* defineReactive(obj, key, val) on a key that has no getter/setter yet
DefineReactive(s, o, key, val) ==
  LET s1 == NewDep(s)
      s2 == Observe(s1, val, FALSE)
  IN [s2 EXCEPT !.heap[o].props =
        SetKey(@, key, [val |-> val, reactive |-> TRUE,
                        dep |-> DepName(s1.depUid), childOb |-> s2.ret])]

\* ---------------------------------------------------------------- Watcher
NewDepsAddAlways(w, d) == TRUE

NewDepsAdd(w, d) ==      \* the newDepIds test of addDep
  d \notin w.newDepIds

AddDep(s, w, d) ==
  IF NewDepsAdd(s.W[w], d)
    THEN LET s1 == [s EXCEPT !.W[w].newDepIds = @ \cup {d},
                             !.W[w].newDeps = Append(@, d)]
         IN IF d \notin s.W[w].depIds THEN AddSub(s1, d, w) ELSE s1
    ELSE s

\* dep.depend()
Depend(s, d) ==
  IF s.target # NoTarget
    THEN AddDep([s EXCEPT !.fired[s.target] = @ \cup {d},
                          !.depends = Append(@, [d |-> d, t |-> s.target,
                                                 stack |-> s.targetStack])],
                s.target, d)
    ELSE [s EXCEPT !.depends = Append(@, [d |-> d, t |-> s.target,
                                          stack |-> s.targetStack])]

\* dependArray(value)
RECURSIVE DependArray(_, _, _)
DependArrayNone(s, items, i) == s

DependArray(s, items, i) ==
  IF i > Len(items) THEN s
  ELSE LET e == items[i]
           s1 == IF IsObject(e) /\ s.heap[e].ob
                   THEN Depend(s, s.heap[e].obdep)
                   ELSE s
       IN DependArray(IF IsArray(s1, e)
                        THEN DependArray(s1, s1.heap[e].items, 1)
                        ELSE s1,
                      items, i + 1)

\* reading o[key]: reactiveGetter if the key is reactive, a plain read if
\* not, undefined if the key is absent
HeapGetter(s, o, key) ==
  IF key \notin DOMAIN s.heap[o].props THEN [s EXCEPT !.ret = Undef]
  ELSE LET p == s.heap[o].props[key]
       IN IF ~p.reactive \/ s.target = NoTarget THEN [s EXCEPT !.ret = p.val]
          ELSE LET s1 == Depend(s, p.dep)
                   s2 == IF p.childOb = 0 THEN s1
                         ELSE LET s3 == Depend(s1, s1.heap[p.childOb].obdep)
                              IN IF IsArray(s3, p.val)
                                   THEN DependArray(s3, s3.heap[p.val].items, 1)
                                   ELSE s3
               IN [s2 EXCEPT !.ret = p.val]

StaleNever(w, d) == FALSE

Stale(w, d) ==           \* the newDepIds test of cleanupDeps
  d \notin w.newDepIds

RECURSIVE CleanupLoop(_, _, _)
CleanupLoop(s, w, i) ==
  IF i = 0 THEN s
  ELSE LET d == s.W[w].deps[i]
       IN CleanupLoop(IF Stale(s.W[w], d) THEN RemoveSub(s, d, w) ELSE s,
                      w, i - 1)

CleanupDeps(s, w) ==
  LET s1 == CleanupLoop(s, w, Len(s.W[w].deps))
  IN [s1 EXCEPT !.W[w].depIds = s1.W[w].newDepIds,
                !.W[w].newDepIds = {},
                !.W[w].deps = s1.W[w].newDeps,
                !.W[w].newDeps = <<>>]

RECURSIVE TeardownLoop(_, _, _)
TeardownLoop(s, w, i) ==
  IF i = 0 THEN s
  ELSE TeardownLoop(RemoveSub(s, s.W[w].deps[i], w), w, i - 1)

Teardown(s, w) ==
  IF s.W[w].active
    THEN [TeardownLoop(s, w, Len(s.W[w].deps)) EXCEPT !.W[w].active = FALSE]
    ELSE s

\* What each getter reads, in order.  Its value is the sum of what it read.
\* "!" stands for: if (what was read so far === 2) throw
\* "?" stands for: if (what was read so far === 1) return it
\* "$" stands for: if (fewer than MaxWatchers watchers exist)
\*                   vm.$watch('x', cb, {immediate: true}), cb reading vm.y
\* "~" stands for: if (unwatch) unwatch(), with the unwatchFn of the watcher
\*                 itself, which $watch returns after the first get (the
\*                 one that fills deps)
GetterReads(g, p) ==
  CASE g = "x"   -> <<"x">>
    [] g = "bad" -> <<"x", "!", "y">>
    [] g = "mk"  -> <<"x", "$">>
    [] g = "y"   -> <<"y">>
    [] g = "sum" -> <<"x", "y">>
    [] g = "xx"  -> <<"x", "x">>
    [] g = "sel" -> IF p = 0 THEN <<"x">> ELSE <<"y">>
    [] g = "c"   -> <<"c">>
    [] g = "xc"  -> <<"x", "c">>
    [] g = "yx"  -> <<"y", "?", "x">>
    [] g = "cy"  -> <<"c", "y">>
    [] g = "xdy" -> <<"x", "?", "~", "y">>

\* ------------------------------------------------------------- scheduler
ScanFloorZero(i, idx) == i >= 0

\* i > index in the scan of queueWatcher
ScanFloor(i, idx) == i > idx

RECURSIVE ScanBack(_, _, _, _)
ScanBack(q, i, idx, id) ==         \* while (i > index && queue[i].id > id) i--
  IF ScanFloor(i, idx) /\ q[i + 1] > id THEN ScanBack(q, i - 1, idx, id) ELSE i

\* ------------------------------------------------------------- nextTick
PushCallbackFront(cbs, e) == <<e>> \o cbs

\* callbacks.push(...)
PushCallback(cbs, e) == Append(cbs, e)

TimerFuncNone(s) == s

\* timerFunc(): the host will call flushCallbacks
TimerFunc(s) == [s EXCEPT !.timers = @ + 1]

NextTickGuardOff(s) == TRUE

\* if (!pending)
NextTickGuard(s) == ~s.pending

\* nextTick(cb): k is "flush" for flushSchedulerQueue, "promise" for a call
\* without cb (which returns a new Promise), else a user callback.
\* Each entry of callbacks also records the number of the call (tag), the
\* watchers queued and not yet run when the call was made (at), those of
\* them not run since (left), and the watchers queued at or after the call
\* and not run since (tick).
NextTick(s, k) ==
  LET e == [k |-> k, tag |-> s.seq + 1, at |-> s.has, left |-> s.has,
            tick |-> s.has]
      s1 == [s EXCEPT !.callbacks = PushCallback(@, e), !.seq = @ + 1,
                      !.promises.made = IF k = "promise"
                                          THEN @ \cup {s.seq + 1} ELSE @]
  IN IF NextTickGuard(s1)
       THEN TimerFunc([s1 EXCEPT !.pending = TRUE])
       ELSE s1

Pend(cbs, w) ==
  [j \in DOMAIN cbs |-> [cbs[j] EXCEPT !.tick = @ \cup {w}]]

Unpend(cbs, w) ==
  [j \in DOMAIN cbs |-> [cbs[j] EXCEPT !.left = @ \ {w}, !.tick = @ \ {w}]]

WaitingGuardOff(s) == TRUE

\* if (!waiting)
WaitingGuard(s) == ~s.waiting

QueueDedupOff(s, w) == TRUE

QueueDedup(s, w) == w \notin s.has

MarkQueuedOff(h, w) == h

\* has[id] = true
MarkQueued(h, w) == h \cup {w}

QueueWatcher(s, w) ==
  IF QueueDedup(s, w)
    THEN LET s1 == [s EXCEPT !.has = MarkQueued(@, w),
                             !.callbacks = Pend(@, w),
                             !.copies = Pend(@, w)]
             s2 == IF ~s1.flushing
                     THEN [s1 EXCEPT !.queue = Append(@, w),
                                     !.insAt = Append(@, 0)]
                     ELSE LET i == ScanBack(s1.queue, Len(s1.queue) - 1,
                                            s1.index, w)
                              q == InsertAt(s1.queue, i + 1, w)
                          IN [s1 EXCEPT !.queue = q,
                                        !.insAt = InsertAt(@, i + 1, s1.index + 1),
                                        !.splices = Append(@,
                                          [w |-> w, at |-> i + 2,
                                           idx |-> s1.index + 1,
                                           rest |-> SubSeq(q, s1.index + 2,
                                                           Len(q))])]
         IN IF WaitingGuard(s2)
              THEN NextTick([s2 EXCEPT !.waiting = TRUE], "flush")
              ELSE s2
    ELSE s

\* ------------------------------------------- the synchronous call graph
RECURSIVE Get(_, _), ExecGetter(_, _, _, _), ComputedGetter(_),
          WatcherDependLoop(_, _, _), Run(_, _), InvokeCb(_, _, _, _),
          Update(_, _), NotifyLoop(_, _, _, _, _), ReactiveSetter(_, _, _),
          NewWatcher(_, _), Watch(_, _), ExecNext(_, _, _, _, _),
          NotifyNext(_, _, _, _, _)

\* reactiveGetter of member f (primitives: no childOb)
ReactiveGetter(s, f) ==
  [Depend(s, f) EXCEPT !.ret = s.data[f]]

\* The path each getter over composite data follows from the data object
HeapPaths(g) ==
  CASE g = "list" -> <<"list">>
    [] g = "n"    -> <<"n">>
    [] g = "rk"   -> <<"rec", "k">>
    [] g = "rj"   -> <<"rec", "j">>
    [] g = "fl"   -> <<"fl">>

IsHeapGetter(g) == g \in {"list", "n", "rk", "rj", "fl"}

\* the getter parsePath makes: obj = obj[segments[i]] while obj is an object
RECURSIVE HeapExec(_, _, _, _)
HeapExec(s, path, i, cur) ==
  IF i > Len(path) THEN [s EXCEPT !.ret = cur]
  ELSE IF ~IsObject(cur) THEN [s EXCEPT !.ret = Undef]
  ELSE LET s1 == HeapGetter(s, cur, path[i])
       IN HeapExec(s1, path, i + 1, s1.ret)

\* this.getter.call(vm, vm): the reads of w's getter from position i on
ExecGetter(s, w, i, acc) ==
  LET rs == GetterReads(s.W[w].getter, s.plain)
  IN IF IsHeapGetter(s.W[w].getter)
       THEN HeapExec(s, HeapPaths(s.W[w].getter), 1, ROOT)
     ELSE IF i > Len(rs) THEN [s EXCEPT !.ret = acc]
     ELSE IF rs[i] = "!"
       THEN IF acc = 2 THEN [s EXCEPT !.exc = TRUE]
                       ELSE ExecGetter(s, w, i + 1, acc)
     ELSE IF rs[i] = "?"
       THEN IF acc = 1 THEN [s EXCEPT !.ret = acc]
                       ELSE ExecGetter(s, w, i + 1, acc)
     ELSE IF rs[i] = "~"
       THEN ExecGetter(IF s.W[w].deps # <<>> THEN Teardown(s, w) ELSE s,
                       w, i + 1, acc)
     ELSE IF rs[i] = "$"
       THEN IF s.uid < MaxWatchers
              THEN ExecNext(Watch(s, [getter |-> "x", cb |-> "ready",
                                      sync |-> FALSE, deep |-> FALSE,
                                      lazy |-> FALSE, user |-> TRUE,
                                      imm |-> TRUE]),
                            w, i, acc, FALSE)
              ELSE ExecGetter(s, w, i + 1, acc)
     ELSE ExecNext(IF rs[i] = "c" THEN ComputedGetter(s)
                                  ELSE ReactiveGetter(s, rs[i]),
                   w, i, acc, TRUE)

\* the getter after the read or call at position i left state s1: an
\* exception leaves the getter, a value read is added to what it computes
ExecNext(s1, w, i, acc, read) ==
  IF s1.exc THEN s1
  ELSE ExecGetter(s1, w, i + 1, IF read THEN acc + s1.ret ELSE acc)

GetCatchesAll(w) == TRUE

\* if (this.user) in the catch of get
GetCatches(w) == w.user

\* the catch and finally blocks of get, and its return; s is the state at
\* the call of get and s2 the state the getter left
GetFinally(s, w, s2) ==
  LET \* catch (e): handleError for a user watcher, throw e otherwise
      sc == IF s2.exc /\ GetCatches(s2.W[w])
              THEN HandleError(s2, [info |-> "getter", w |-> w])
              ELSE s2
      \* finally
      s3 == PopTarget(sc)           \* traverse(value) reads nothing in a primitive
      s4 == CleanupDeps(s3, w)
  IN [s4 EXCEPT !.ret = IF s2.exc THEN Undef ELSE s2.ret,
                !.throws = IF s2.exc
                  THEN Append(@, [w |-> w, user |-> s.W[w].user,
                                  routed |-> Len(sc.errs) - Len(s2.errs),
                                  rethrown |-> sc.exc,
                                  target0 |-> s.target, target1 |-> s4.target,
                                  depth0 |-> Len(s.targetStack),
                                  depth1 |-> Len(s4.targetStack),
                                  read |-> s2.fired[w],
                                  subs1 |-> {d \in DOMAIN s4.subs :
                                               w \in Range(s4.subs[d])},
                                  left |-> Len(s4.W[w].newDeps)])
                  ELSE @,
                !.subAt[w] = {d \in DOMAIN s4.subs : w \in Range(s4.subs[d])}]

Get(s, w) ==
  GetFinally(s, w,
    ExecGetter(PushTarget([s EXCEPT !.gets = Append(@, w), !.fired[w] = {}],
                          w),
               w, 1, 0))

\* this.value = (what get returned); this.dirty = false
Evaluated(w, s1) ==
  IF s1.exc THEN s1
  ELSE [s1 EXCEPT !.W[w].value = s1.ret, !.W[w].dirty = FALSE]

Evaluate(s, w) == Evaluated(w, Get(s, w))

\* watcher.depend(): this.deps[i].depend() from the last to the first
WatcherDependLoop(s, w, i) ==
  IF i = 0 THEN s
  ELSE WatcherDependLoop(Depend(s, s.W[w].deps[i]), w, i - 1)

\* what the getter g of a computed property returns over the data of s
GetterValue(s, g) ==
  CASE g = "x"   -> s.data["x"]
    [] g = "sum" -> s.data["x"] + s.data["y"]
    [] g = "bad" -> IF s.data["x"] = 2 THEN Undef
                                       ELSE s.data["x"] + s.data["y"]

HasTargetNever(s) == FALSE

\* if (Dep.target) in computedGetter
HasTarget(s) == s.target # NoTarget

\* computedGetter after the dirty test: if (Dep.target) watcher.depend();
\* return watcher.value.  s is the state at the call of computedGetter and
\* s1 the state after the dirty test, with exc if evaluate threw
ComputedDepend(s, w, s1) ==
  LET s2 == IF HasTarget(s1)
              THEN WatcherDependLoop(s1, w, Len(s1.W[w].deps))
              ELSE s1
  IN IF s1.exc THEN s1
     ELSE [s2 EXCEPT !.ret = s2.W[w].value,
                !.creads = Append(@,
                   [w |-> w, dirty0 |-> s.W[w].dirty, old |-> s.W[w].value,
                    n |-> Count(s2.gets, w) - Count(s.gets, w),
                    dirty1 |-> s2.W[w].dirty, ret |-> s2.W[w].value,
                    fresh |-> GetterValue(s2, s2.W[w].getter),
                    by |-> s.target])]

\* computedGetter of the computed property
ComputedGetter(s) ==
  IF s.comp = 0 THEN [s EXCEPT !.ret = Undef]
  ELSE ComputedDepend(s, s.comp,
                      IF s.W[s.comp].dirty THEN Evaluate(s, s.comp) ELSE s)

\* the watcher of the latest $watch call; its unwatchFn is what the "down"
\* callback calls (a computed property's watcher has no unwatchFn)
LastWatched(s) ==
  CHOOSE j \in 1..s.uid :
    /\ ~s.W[j].lazy
    /\ \A i \in 1..s.uid : ~s.W[i].lazy => i <= j

\* the body of a watch callback
CbEffect(s, w) ==
  LET k == s.W[w].cb
  IN CASE k = "none"  -> s
       [] k \in {"flipx", "setx", "sety"} ->
            ReactiveSetter(s, IF k = "sety" THEN "y" ELSE "x",
                           IF k = "flipx" THEN 3 - s.data["x"] ELSE 2)
       [] k = "tick"  -> NextTick(s, "user")
       [] k = "throw" -> [s EXCEPT !.exc = TRUE]
       [] k = "ready" -> ReactiveGetter(s, "y")
       [] k = "down"  -> Teardown(s, LastWatched(s))

CbCatchesNever(w) == FALSE

\* if (this.user) in run: invokeWithErrorHandling has a try/catch
CbCatches(w) == w.user

\* invokeWithErrorHandling(this.cb, ...) for a user watcher, else
\* this.cb.call(...)
InvokeCatch(w, s1) ==
  IF s1.exc /\ CbCatches(s1.W[w])
    THEN HandleError(s1, [info |-> "callback", w |-> w])
    ELSE s1

InvokeCb(s, w, value, oldValue) ==
  InvokeCatch(w, CbEffect([s EXCEPT !.calls = Append(@,
                             [w |-> w, new |-> value, old |-> oldValue,
                              act |-> s.W[w].active])],
                          w))

RunGuardOff(w) == TRUE

\* if (this.active)
RunGuard(w) == w.active

ChangedAlways(wr, value) == TRUE

\* value !== this.value || isObject(value) || this.deep
Changed(wr, value) ==
  ~StrictEq(value, wr.value) \/ IsObject(value) \/ wr.deep

\* run after const value = this.get(), which left state s1
RunValue(w, s1) ==
  LET value == s1.ret
  IN IF s1.exc THEN s1
     ELSE IF Changed(s1.W[w], value)
       THEN InvokeCb([s1 EXCEPT !.W[w].value = value], w,
                     value, s1.W[w].value)
       ELSE s1

\* what the run() of w did: s at the call, s1 after get, s2 at the return
Ran(s, w, s1, s2) ==
  [s2 EXCEPT !.runs = Append(@,
     [w |-> w, active |-> s.W[w].active, thrown |-> s1.exc,
      differs |-> ~StrictEq(s1.ret, s1.W[w].value),
      obj |-> IsObject(s1.ret), deep |-> s.W[w].deep,
      evald |-> Count(s1.gets, w) - Count(s.gets, w),
      called |-> /\ Len(s2.calls) > Len(s1.calls)
                 /\ s2.calls[Len(s1.calls) + 1].w = w])]

\* run after this.get() left state s1
RunGot(s, w, s1) == Ran(s, w, s1, RunValue(w, s1))

Run(s, w) ==
  IF RunGuard(s.W[w])
    THEN RunGot(s, w, Get(s, w))
    ELSE Ran(s, w, s, s)

\* what the update() of w did between state s0 and state s1
Updated(s0, w, s1) ==
  [s1 EXCEPT !.updates = Append(@,
     [w |-> w, lazy |-> s0.W[w].lazy, sync |-> s0.W[w].sync,
      active |-> s0.W[w].active,
      dirty |-> s1.W[w].dirty,
      only |-> s1 = [s0 EXCEPT !.W[w].dirty = TRUE],
      gets |-> Len(s1.gets) - Len(s0.gets),
      own |-> Count(s1.gets, w) - Count(s0.gets, w),
      calls |-> Len(s1.calls) - Len(s0.calls),
      queued |-> Count(s1.queue, w) - Count(s0.queue, w),
      has |-> w \in s1.has,
      quiet |-> s1.W = s0.W /\ s1.data = s0.data /\ s1.subs = s0.subs])]

IsSyncNever(w) == FALSE

\* else if (this.sync)
IsSync(w) == w.sync

Update(s, w) ==
  LET s0 == IF s.flushing THEN [s EXCEPT !.touched = @ \cup {w}] ELSE s
  IN Updated(s0, w,
       IF s0.W[w].lazy THEN [s0 EXCEPT !.W[w].dirty = TRUE]
       ELSE IF IsSync(s0.W[w]) THEN Run(s0, w)
       ELSE QueueWatcher(s0, w))

IteratedLive(s, d, snap) == s.subs[d]

\* const subs = this.subs.slice(): the loop walks the copy
Iterated(s, d, snap) == snap

\* dep.notify(): update() on each member of the snapshot, in order
\* (config.async is true, so the snapshot is not sorted)
\* n is the number of this notify() call among those of the job
NotifyLoop(s, d, n, snap, i) ==
  IF i > Len(Iterated(s, d, snap)) THEN s
  ELSE NotifyNext(Update([s EXCEPT !.notifies[n].upd =
                                     Append(@, Iterated(s, d, snap)[i])],
                         Iterated(s, d, snap)[i]),
                  d, n, snap, i)

\* the loop of notify after subs[i].update() left state s1
NotifyNext(s1, d, n, snap, i) ==
  IF s1.exc THEN s1 ELSE NotifyLoop(s1, d, n, snap, i + 1)

Notify(s, d) ==
  NotifyLoop([s EXCEPT !.notified = Append(@, d),
                       !.notifies = Append(@, [d |-> d, snap |-> s.subs[d],
                                               upd |-> <<>>])],
             d, Len(s.notifies) + 1, s.subs[d], 1)

\* reactiveSetter of member f (primitives: observe(newVal) returns nothing)
ReactiveSetter(s, f, v) ==
  IF v = s.data[f] THEN s
  ELSE Notify([s EXCEPT !.data[f] = v], f)

\* ------------------------------------------------ writes to composite data
SameValueOff(a, b) == FALSE

\* newVal === value || (newVal !== newVal && value !== value)
SameValue(a, b) == StrictEq(a, b) \/ (a = NaN /\ b = NaN)

\* reactiveSetter of o[key]
HeapSetter(s, o, key, newVal) ==
  LET p == s.heap[o].props[key]
  IN IF SameValue(newVal, p.val) THEN s
     ELSE LET s1 == [s EXCEPT !.heap[o].props[key].val = newVal]
              s2 == Observe(s1, newVal, FALSE)
              s3 == [s2 EXCEPT !.heap[o].props[key].childOb = s2.ret]
          IN Notify(s3, p.dep)

\* o[key] = v on a record
HeapAssign(s, o, key, v) ==
  IF key \in DOMAIN s.heap[o].props /\ s.heap[o].props[key].reactive
    THEN HeapSetter(s, o, key, v)
    ELSE [s EXCEPT !.heap[o].props = SetKey(@, key, PlainProp(v))]

\* how Array.prototype.sort orders the values without a comparator: by
\* their strings, "1" < "2" < "NaN" < "[object Object]", undefined last
SortRank(v) ==
  CASE v = Undef -> 5
    [] v = NaN -> 3
    [] IsObject(v) -> 4
    [] OTHER -> v

\* stable insertion of e into a sequence sorted by SortRank
RECURSIVE SortInsert(_, _)
SortInsert(q, e) ==
  IF q = <<>> THEN <<e>>
  ELSE IF SortRank(q[Len(q)]) <= SortRank(e) THEN Append(q, e)
  ELSE Append(SortInsert(SubSeq(q, 1, Len(q) - 1), e), q[Len(q)])

RECURSIVE NativeSort(_)
NativeSort(q) ==
  IF q = <<>> THEN <<>>
  ELSE SortInsert(NativeSort(SubSeq(q, 1, Len(q) - 1)), q[Len(q)])

Min(a, b) == IF a < b THEN a ELSE b

\* original.apply(this, args): the items after the call, its result (res,
\* or resl when the result is a new array; a result that is the array
\* itself is its id)
Native(a, items, c) ==
  LET n == Len(items)
      st == Min(c.start, n)
      dc == Min(c.del, n - st)
  IN CASE c.name = "push" ->
            [items |-> items \o c.args, res |-> n + Len(c.args), resl |-> <<>>]
       [] c.name = "unshift" ->
            [items |-> c.args \o items, res |-> n + Len(c.args), resl |-> <<>>]
       [] c.name = "pop" ->
            [items |-> SubSeq(items, 1, n - 1),
             res |-> IF n = 0 THEN Undef ELSE items[n], resl |-> <<>>]
       [] c.name = "shift" ->
            [items |-> SubSeq(items, 2, n),
             res |-> IF n = 0 THEN Undef ELSE items[1], resl |-> <<>>]
       [] c.name = "splice" ->
            [items |-> SubSeq(items, 1, st) \o c.args
                         \o SubSeq(items, st + dc + 1, n),
             res |-> Undef, resl |-> SubSeq(items, st + 1, st + dc)]
       [] c.name = "sort" ->
            [items |-> NativeSort(items), res |-> a, resl |-> <<>>]
       [] c.name = "reverse" ->
            [items |-> [j \in 1..n |-> items[n + 1 - j]], res |-> a,
             resl |-> <<>>]

InsertedNone(c) == <<>>

\* inserted: args for push and unshift, args.slice(2) for splice
Inserted(c) ==
  IF c.name \in {"push", "unshift", "splice"} THEN c.args ELSE <<>>

\* mutator: the patched method c.name called on the observed array a
Mutator(s, a, c) ==
  LET nat == Native(a, s.heap[a].items, c)
      s1 == [s EXCEPT !.heap[a].items = nat.items]
      s2 == ObserveArray(s1, Inserted(c), 1)
      s3 == Notify(s2, s2.heap[a].obdep)
  IN [s3 EXCEPT !.ret = nat.res, !.retl = nat.resl]

SetDefinePlain(s, o, key, val) ==
  [s EXCEPT !.heap[o].props = SetKey(@, key, PlainProp(val))]

\* defineReactive(ob.value, key, val) in set
SetDefine(s, o, key, val) == DefineReactive(s, o, key, val)

RootDataNever(t) == FALSE

\* target._isVue || (ob && ob.vmCount) in set and del
RootData(t) == t.isVue \/ (t.ob /\ t.vmCount > 0)

\* set(target, key, val) on a record
Set(s, o, key, val) ==
  LET t == s.heap[o]
  IN IF key \in DOMAIN t.props
       THEN [HeapAssign(s, o, key, val) EXCEPT !.ret = val]
     ELSE IF RootData(t) THEN [s EXCEPT !.ret = val]
     ELSE IF ~t.ob
       THEN [s EXCEPT !.heap[o].props = SetKey(@, key, PlainProp(val)),
                      !.ret = val]
     ELSE LET s1 == SetDefine(s, o, key, val)
          IN [Notify(s1, t.obdep) EXCEPT !.ret = val]

\* set(target, key, val) on an array with a valid index key <= length
SetIndex(s, a, key, val) ==
  LET c == [name |-> "splice", start |-> key, del |-> 1, args |-> <<val>>]
      s1 == IF s.heap[a].ob THEN Mutator(s, a, c)
            ELSE [s EXCEPT !.heap[a].items = Native(a, @, c).items]
  IN [s1 EXCEPT !.ret = val, !.retl = <<>>]

DelOwnAlways(t, key) == TRUE

\* hasOwn(target, key)
DelOwn(t, key) == key \in DOMAIN t.props

\* del(target, key) on a record
Del(s, o, key) ==
  LET t == s.heap[o]
  IN IF RootData(t) THEN s
     ELSE IF ~DelOwn(t, key) THEN s
     ELSE LET s1 == [s EXCEPT !.heap[o].props = DelKey(@, key)]
          IN IF ~t.ob THEN s1 ELSE Notify(s1, t.obdep)

\* new Watcher(vm, expOrFn, cb, options)
ConstructorEvaluatesAlways(lazy) == TRUE

\* this.value = this.lazy ? undefined : this.get()
ConstructorEvaluates(lazy) == ~lazy

\* this.value = (what get returned) in the constructor
Constructed(id, s1) ==
  IF s1.exc THEN s1 ELSE [s1 EXCEPT !.W[id].value = s1.ret]

NewWatcher(s, o) ==
  LET id == s.uid + 1
      w == [lazy |-> o.lazy, sync |-> o.sync, deep |-> o.deep, user |-> o.user,
            imm |-> o.imm, active |-> TRUE, dirty |-> o.lazy, value |-> Undef,
            deps |-> <<>>, newDeps |-> <<>>, depIds |-> {}, newDepIds |-> {},
            getter |-> o.getter, cb |-> o.cb]
      s1 == [s EXCEPT !.uid = id,
                      !.W = [j \in 1..id |-> IF j = id THEN w ELSE s.W[j]],
                      !.fired = [j \in 1..id |-> IF j = id THEN {} ELSE s.fired[j]],
                      !.subAt = [j \in 1..id |-> IF j = id THEN {} ELSE s.subAt[j]]]
  IN IF ConstructorEvaluates(o.lazy)
       THEN Constructed(id, Get(s1, id))
       ELSE s1

ImmediatePushKeep(s) == PushTarget(s, s.target)

\* pushTarget() before the immediate callback
ImmediatePush(s) == PushTarget(s, NoTarget)

\* popTarget() after the immediate callback, which left state s2
WatchReturn(s2) == IF s2.exc THEN s2 ELSE PopTarget(s2)

\* $watch after new Watcher left state s1: if (options.immediate)
WatchImmediate(o, s1) ==
  IF s1.exc \/ ~o.imm THEN s1
  ELSE WatchReturn(InvokeCb(ImmediatePush(s1), s1.uid,
                            s1.W[s1.uid].value, Undef))

\* vm.$watch(expOrFn, cb, options) up to the return of unwatchFn; o.imm is
\* options.immediate
Watch(s, o) == WatchImmediate(o, NewWatcher(s, o))

\* ------------------------------------------------------------ user code
\* The watchers user code registers with vm.$watch(expOrFn, cb, options)
WatchKinds ==
  { [getter |-> "x",   cb |-> "none",  sync |-> FALSE, deep |-> FALSE],
    [getter |-> "y",   cb |-> "none",  sync |-> FALSE, deep |-> FALSE],
    [getter |-> "sum", cb |-> "none",  sync |-> FALSE, deep |-> FALSE],
    [getter |-> "xx",  cb |-> "none",  sync |-> FALSE, deep |-> FALSE],
    [getter |-> "sel", cb |-> "none",  sync |-> FALSE, deep |-> FALSE],
    [getter |-> "c",   cb |-> "none",  sync |-> FALSE, deep |-> FALSE],
    [getter |-> "x",   cb |-> "setx",  sync |-> FALSE, deep |-> FALSE],
    [getter |-> "x",   cb |-> "sety",  sync |-> FALSE, deep |-> FALSE],
    [getter |-> "x",   cb |-> "tick",  sync |-> FALSE, deep |-> FALSE],
    [getter |-> "x",   cb |-> "down",  sync |-> TRUE,  deep |-> FALSE],
    [getter |-> "x",   cb |-> "none",  sync |-> FALSE, deep |-> TRUE] }

\* A watcher whose callback writes its own dependency on every run, and a
\* watcher of the same member with an empty callback
CircKinds ==
  { [getter |-> "x",   cb |-> "flipx", sync |-> FALSE, deep |-> FALSE],
    [getter |-> "x",   cb |-> "none",  sync |-> FALSE, deep |-> FALSE] }

\* The getters of computed properties
ComputedKinds == {"x", "sum"}

\* no call on the heap
NoOp == [name |-> "none"]

\* A job starts with empty per-job records.
Job(s) ==
  [s EXCEPT !.calls = <<>>, !.gets = <<>>, !.creads = <<>>, !.errs = <<>>,
            !.throws = <<>>, !.notified = <<>>, !.op = NoOp, !.splices = <<>>,
            !.notifies = <<>>, !.updates = <<>>, !.depends = <<>>,
            !.runs = <<>>]

\* A host job ends, by returning or by an exception nothing catches.
EndHost(s) ==
  Commit(IF s.exc THEN [s EXCEPT !.aborted = @ \cup {"host"}] ELSE s)

HostJob(s) == [Job(s) EXCEPT !.ops = @ + 1]

CanHost == pc = "idle" /\ ops < MaxOps

InitCore ==
  /\ data = [f \in Fields |-> 1]
  /\ plain = 0
  /\ target = NoTarget
  /\ targetStack = <<>>
  /\ W = <<>>
  /\ uid = 0
  /\ comp = 0
  /\ queue = <<>> /\ has = {} /\ waiting = FALSE /\ flushing = FALSE /\ index = 0
  /\ callbacks = <<>> /\ pending = FALSE /\ timers = 0
  /\ copies = <<>> /\ ci = 0
  /\ pc = "idle"
  /\ ops = 0 /\ seq = 0 /\ done = 0
  /\ calls = <<>> /\ gets = <<>> /\ creads = <<>>
  /\ fired = <<>> /\ subAt = <<>>
  /\ pre = <<>> /\ touched = {} /\ insAt = <<>> /\ pushed = <<>>
  /\ errs = <<>> /\ aborted = {} /\ throws = <<>>
  /\ notified = <<>> /\ op = NoOp
  /\ promises = [made |-> {}, resolved |-> {}]
  /\ splices = <<>> /\ notifies = <<>> /\ updates = <<>> /\ depends = <<>>
  /\ runs = <<>>

\* a browser host, no config.errorHandler, data: {x: 1, y: 1}
Init ==
  /\ InitCore
  /\ subs = [f \in Fields |-> <<>>]
  /\ heap = <<>> /\ depUid = 0
  /\ inBrowser = TRUE
  /\ errh = "none"

\* vm.x = v / vm.y = v
HostWrite(f, v) ==
  /\ CanHost
  /\ EndHost(ReactiveSetter(HostJob(St), f, v))

\* user code changes the variable the "sel" getter consults
HostTogglePlain ==
  /\ CanHost
  /\ Commit([HostJob(St) EXCEPT !.plain = 1 - @])

\* unwatch = vm.$watch(expOrFn, cb, options), without immediate
HostWatch(k) ==
  /\ CanHost
  /\ uid < MaxWatchers
  /\ EndHost(Watch(HostJob(St),
       [getter |-> k.getter, cb |-> k.cb, sync |-> k.sync, deep |-> k.deep,
        lazy |-> FALSE, user |-> TRUE, imm |-> FALSE]))

\* unwatch = vm.$watch(expOrFn, cb, {immediate: true})
HostWatchImmediate(k) ==
  /\ CanHost
  /\ uid < MaxWatchers
  /\ EndHost(Watch(HostJob(St),
       [getter |-> k.getter, cb |-> k.cb, sync |-> k.sync, deep |-> k.deep,
        lazy |-> FALSE, user |-> TRUE, imm |-> TRUE]))

\* defineComputed: the property reads the watcher just made
DefineComputed(s) == [s EXCEPT !.comp = s.uid]

\* initComputed + defineComputed for one computed property
HostComputed(g) ==
  /\ CanHost
  /\ uid < MaxWatchers
  /\ comp = 0
  /\ Commit(DefineComputed(NewWatcher(HostJob(St),
                [getter |-> g, cb |-> "none", sync |-> FALSE, deep |-> FALSE,
                 lazy |-> TRUE, user |-> FALSE, imm |-> FALSE])))

\* user code reads vm.c outside any watcher
HostReadComputed ==
  /\ CanHost
  /\ comp # 0
  /\ EndHost(ComputedGetter(HostJob(St)))

\* unwatchFn of a watcher made by $watch
HostUnwatch(w) ==
  /\ CanHost
  /\ w \in 1..uid
  /\ ~W[w].lazy
  /\ Commit(Teardown(HostJob(St), w))

\* Vue.nextTick(cb)
HostNextTick ==
  /\ CanHost
  /\ Commit(NextTick(HostJob(St), "user"))

\* p = Vue.nextTick()
HostNextTickPromise ==
  /\ CanHost
  /\ Commit(NextTick(HostJob(St), "promise"))

\* Vue.nextTick(cb) with a cb that calls Vue.nextTick(cb2)
HostNextTickAgain ==
  /\ CanHost
  /\ Commit(NextTick(HostJob(St), "usertick"))

\* Vue.nextTick(cb) with a cb that throws
HostNextTickThrow ==
  /\ CanHost
  /\ Commit(NextTick(HostJob(St), "userthrow"))

\* ---------------------------------------------------------- flushCallbacks
SliceReversed(cbs) == [j \in 1..Len(cbs) |-> cbs[Len(cbs) + 1 - j]]

\* callbacks.slice(0)
Slice(cbs) == cbs

PendingKept(p) == p

\* pending = false, the first statement of flushCallbacks
PendingCleared(p) == FALSE

\* the host starts a scheduled flushCallbacks: pending = false, copies, clear
FlushCallbacks ==
  /\ pc = "idle"
  /\ timers > 0
  /\ Commit([St EXCEPT !.timers = @ - 1, !.pending = PendingCleared(@),
                       !.copies = Slice(callbacks), !.callbacks = <<>>,
                       !.ci = 0, !.pc = "cbs"])

WrapperTryOff == FALSE

\* try { cb.call(ctx) } catch (e) { ... } in the wrapper
WrapperTry == TRUE

\* catch (e) { handleError(e, ctx, 'nextTick') } of the wrapper nextTick
\* queued, and what the copies loop of flushCallbacks does next
WrapperCatch(s) ==
  LET s1 == IF WrapperTry THEN HandleError(s, [info |-> "nextTick", w |-> 0])
                          ELSE s
  IN IF s1.exc
       THEN [s1 EXCEPT !.aborted = @ \cup {"cbs"},
                       !.copies = <<>>, !.ci = 0, !.pc = "idle"]
       ELSE [s1 EXCEPT !.ci = @ + 1, !.pc = "cbs"]

ResolvesNever(e) == FALSE

\* else if (_resolve) in the wrapper
Resolves(e) == e.k = "promise"

\* the wrapper of a call that returns: _resolve(ctx) if there was no cb
WrapperReturn(s, e) ==
  [s EXCEPT !.ci = @ + 1,
            !.promises.resolved = IF Resolves(e) THEN @ \cup {e.tag} ELSE @]

\* copies[i]() for a user callback
RunUserCallback ==
  /\ pc = "cbs"
  /\ ci < Len(copies)
  /\ copies[ci + 1].k # "flush"
  /\ LET s == [Job(St) EXCEPT !.done = @ + 1]
     IN Commit(IF copies[ci + 1].k = "userthrow"
                 THEN WrapperCatch(s)
               ELSE IF copies[ci + 1].k = "usertick"
                 THEN WrapperReturn(NextTick(s, "user"), copies[ci + 1])
                 ELSE WrapperReturn(s, copies[ci + 1]))

SortQueueOff(q) == q

\* queue.sort((a, b) => a.id - b.id)
SortQueue(q) == SortSeq(q, LAMBDA a, b : a < b)

\* copies[i]() for flushSchedulerQueue, up to the loop
FlushBegin ==
  /\ pc = "cbs"
  /\ ci < Len(copies)
  /\ copies[ci + 1].k = "flush"
  /\ Commit([Job(St) EXCEPT !.done = @ + 1,
                            !.flushing = TRUE,
                            !.queue = SortQueue(@),
                            !.pushed = queue,
                            !.index = 0,
                            !.pre = [w \in DOMAIN W |-> W[w].value],
                            !.touched = {},
                            !.pc = "flush"])

DequeuedKept(h, w) == h

\* has[id] = null
Dequeued(h, w) == h \ {w}

\* after watcher.run() in the loop: index++, or the exception leaves
\* flushSchedulerQueue for the catch of the wrapper
FlushIteration(s) ==
  IF s.exc THEN WrapperCatch([s EXCEPT !.aborted = @ \cup {"flush"}])
           ELSE [s EXCEPT !.index = @ + 1]

\* one iteration of the loop of flushSchedulerQueue
FlushStep ==
  /\ pc = "flush"
  /\ index < Len(queue)
  /\ index < MaxFlushRuns
  /\ LET w == queue[index + 1]
     IN Commit(FlushIteration(Run([St EXCEPT !.has = Dequeued(@, w),
                                             !.callbacks = Unpend(@, w),
                                             !.copies = Unpend(@, w)], w)))

ResetKeepsWaiting(s) ==
  [s EXCEPT !.index = 0, !.queue = <<>>, !.insAt = <<>>, !.has = {},
            !.flushing = FALSE]

ResetKeepsFlushing(s) ==
  [s EXCEPT !.index = 0, !.queue = <<>>, !.insAt = <<>>, !.has = {},
            !.waiting = FALSE]

\* resetSchedulerState()
ResetSchedulerState(s) ==
  [s EXCEPT !.index = 0, !.queue = <<>>, !.insAt = <<>>, !.has = {},
            !.waiting = FALSE, !.flushing = FALSE]

\* the loop is over: resetSchedulerState, flushSchedulerQueue returns
FlushEnd ==
  /\ pc = "flush"
  /\ index >= Len(queue)
  /\ Commit([ResetSchedulerState(St) EXCEPT
                !.pre = <<>>, !.touched = {}, !.pushed = <<>>,
                !.ci = @ + 1, !.pc = "cbs"])

\* the copies loop is over: flushCallbacks returns
FlushCallbacksEnd ==
  /\ pc = "cbs"
  /\ ci >= Len(copies)
  /\ Commit([St EXCEPT !.copies = <<>>, !.ci = 0, !.pc = "idle"])

Next ==
  \/ \E f \in Fields, v \in Vals : HostWrite(f, v)
  \/ HostTogglePlain
  \/ \E k \in WatchKinds : HostWatch(k)
  \/ \E g \in ComputedKinds : HostComputed(g)
  \/ HostReadComputed
  \/ \E w \in 1..MaxWatchers : HostUnwatch(w)
  \/ HostNextTick
  \/ FlushCallbacks
  \/ RunUserCallback
  \/ FlushBegin
  \/ FlushStep
  \/ FlushEnd
  \/ FlushCallbacksEnd

Spec == Init /\ [][Next]_vars

\* nextTick with and without a callback, between writes to watched members
TickKinds ==
  { [getter |-> "x", cb |-> "none", sync |-> FALSE, deep |-> FALSE],
    [getter |-> "x", cb |-> "tick", sync |-> FALSE, deep |-> FALSE] }

NextTicks ==
  \/ \E f \in Fields, v \in Vals : HostWrite(f, v)
  \/ \E k \in TickKinds : HostWatch(k)
  \/ HostNextTick
  \/ HostNextTickAgain
  \/ HostNextTickPromise
  \/ FlushCallbacks
  \/ RunUserCallback
  \/ FlushBegin
  \/ FlushStep
  \/ FlushEnd
  \/ FlushCallbacksEnd

SpecTicks == Init /\ [][NextTicks]_vars

\* watchers that read the computed property: a sync watcher that reads x
\* before it, a sync watcher and a queued watcher that read it alone
FreshKinds ==
  { [getter |-> "xc", cb |-> "none", sync |-> TRUE,  deep |-> FALSE],
    [getter |-> "c",  cb |-> "none", sync |-> TRUE,  deep |-> FALSE],
    [getter |-> "c",  cb |-> "none", sync |-> FALSE, deep |-> FALSE],
    [getter |-> "cy", cb |-> "none", sync |-> FALSE, deep |-> FALSE] }

NextFresh ==
  \/ \E f \in Fields, v \in Vals : HostWrite(f, v)
  \/ \E k \in FreshKinds : HostWatch(k)
  \/ \E g \in ComputedKinds : HostComputed(g)
  \/ HostReadComputed
  \/ FlushCallbacks
  \/ FlushBegin
  \/ FlushStep
  \/ FlushEnd
  \/ FlushCallbacksEnd

SpecFresh == Init /\ [][NextFresh]_vars

\* watcher.teardown() on the watcher of the computed property
HostTeardown(w) ==
  /\ CanHost
  /\ w \in 1..uid
  /\ W[w].lazy
  /\ Commit(Teardown(HostJob(St), w))

\* a watcher that calls its own unwatchFn from its getter once x is not 1,
\* and a plain watcher of x
DownKinds ==
  { [getter |-> "xdy", cb |-> "none", sync |-> FALSE, deep |-> FALSE],
    [getter |-> "x",   cb |-> "none", sync |-> FALSE, deep |-> FALSE] }

NextDown ==
  \/ \E f \in Fields, v \in Vals : HostWrite(f, v)
  \/ \E k \in DownKinds : HostWatch(k)
  \/ \E g \in ComputedKinds : HostComputed(g)
  \/ HostReadComputed
  \/ \E w \in 1..MaxWatchers : HostUnwatch(w)
  \/ \E w \in 1..MaxWatchers : HostTeardown(w)
  \/ FlushCallbacks
  \/ FlushBegin
  \/ FlushStep
  \/ FlushEnd
  \/ FlushCallbacksEnd

SpecDown == Init /\ [][NextDown]_vars

\* sync watchers whose run changes who subscribes to what while a notify
\* is walking its copy of subs: by re-collection ("yx" reads x only once y
\* is not 1, "sel" changes member with the variable it consults), by the
\* teardown of another watcher ("down"), from a nested notify ("sety")
NotifyKinds ==
  { [getter |-> "yx",  cb |-> "none", sync |-> TRUE,  deep |-> FALSE],
    [getter |-> "sel", cb |-> "none", sync |-> TRUE,  deep |-> FALSE],
    [getter |-> "x",   cb |-> "sety", sync |-> TRUE,  deep |-> FALSE],
    [getter |-> "x",   cb |-> "down", sync |-> TRUE,  deep |-> FALSE],
    [getter |-> "x",   cb |-> "none", sync |-> FALSE, deep |-> FALSE] }

NextNotify ==
  \/ \E f \in Fields, v \in Vals : HostWrite(f, v)
  \/ HostTogglePlain
  \/ \E k \in NotifyKinds : HostWatch(k)
  \/ \E w \in 1..MaxWatchers : HostUnwatch(w)
  \/ FlushCallbacks
  \/ FlushBegin
  \/ FlushStep
  \/ FlushEnd
  \/ FlushCallbacksEnd

SpecNotify == Init /\ [][NextNotify]_vars

\* User code that registers the watchers of CircKinds and writes
NextCirc ==
  \/ \E f \in Fields, v \in Vals : HostWrite(f, v)
  \/ \E k \in CircKinds : HostWatch(k)
  \/ FlushCallbacks
  \/ FlushBegin
  \/ FlushStep
  \/ FlushEnd
  \/ FlushCallbacksEnd

SpecCirc == Init /\ [][NextCirc]_vars

\* ------------------------------------------------- user code that throws
\* config.errorHandler: none, one that returns, one that throws
ErrorHandlers == {"none", "ok", "throw"}

\* any host, any config.errorHandler
InitErr ==
  /\ InitCore
  /\ subs = [f \in Fields |-> <<>>]
  /\ heap = <<>> /\ depUid = 0
  /\ inBrowser \in BOOLEAN
  /\ errh \in ErrorHandlers

\* Watchers whose callback or getter throws, and watchers that do not
ErrKinds ==
  { [getter |-> "x",   cb |-> "throw", sync |-> FALSE, deep |-> FALSE],
    [getter |-> "x",   cb |-> "none",  sync |-> FALSE, deep |-> FALSE],
    [getter |-> "y",   cb |-> "none",  sync |-> FALSE, deep |-> FALSE],
    [getter |-> "bad", cb |-> "none",  sync |-> FALSE, deep |-> FALSE],
    [getter |-> "c",   cb |-> "none",  sync |-> FALSE, deep |-> FALSE],
    [getter |-> "mk",  cb |-> "none",  sync |-> FALSE, deep |-> FALSE] }

\* Watchers registered with immediate: true: a callback that reads vm.y,
\* one that throws
ImmediateKinds ==
  { [getter |-> "x",   cb |-> "ready", sync |-> FALSE, deep |-> FALSE],
    [getter |-> "x",   cb |-> "throw", sync |-> FALSE, deep |-> FALSE] }

\* A computed property whose getter throws
ErrComputedKinds == {"bad"}

NextErr ==
  \/ \E f \in Fields, v \in Vals : HostWrite(f, v)
  \/ \E k \in ErrKinds : HostWatch(k)
  \/ \E k \in ImmediateKinds : HostWatchImmediate(k)
  \/ \E g \in ErrComputedKinds : HostComputed(g)
  \/ HostReadComputed
  \/ HostNextTick
  \/ HostNextTickThrow
  \/ FlushCallbacks
  \/ RunUserCallback
  \/ FlushBegin
  \/ FlushStep
  \/ FlushEnd
  \/ FlushCallbacksEnd

SpecErr == InitErr /\ [][NextErr]_vars

\* getData(data, vm): pushTarget(); try { return data.call(vm, vm) }
\* catch (e) { handleError(e, vm, `data()`); return {} }
\* finally { popTarget() }; thr tells whether the data function throws
GetData(s, thr) ==
  PopTarget(IF thr
              THEN HandleError([PushTarget(s, NoTarget) EXCEPT !.exc = TRUE],
                               [info |-> "data()", w |-> 0])
              ELSE PushTarget(s, NoTarget))

\* initData of a component whose data option is a function
HostGetData(thr) ==
  /\ CanHost
  /\ EndHost(GetData(HostJob(St), thr))

\* a callback that throws and a getter that throws once x is 2
BalanceKinds ==
  { [getter |-> "x",   cb |-> "throw", sync |-> FALSE, deep |-> FALSE],
    [getter |-> "bad", cb |-> "none",  sync |-> FALSE, deep |-> FALSE] }

NextBalance ==
  \/ \E f \in Fields, v \in Vals : HostWrite(f, v)
  \/ \E k \in BalanceKinds : HostWatch(k)
  \/ \E k \in ImmediateKinds : HostWatchImmediate(k)
  \/ \E thr \in BOOLEAN : HostGetData(thr)
  \/ FlushCallbacks
  \/ FlushBegin
  \/ FlushStep
  \/ FlushEnd
  \/ FlushCallbacksEnd

SpecBalance == InitErr /\ [][NextBalance]_vars

\* ------------------------------------ watchers whose run leaves the flush
\* any host, no config.errorHandler
InitAbort ==
  /\ InitCore
  /\ subs = [f \in Fields |-> <<>>]
  /\ heap = <<>> /\ depUid = 0
  /\ inBrowser \in BOOLEAN
  /\ errh = "none"

\* new Watcher(vm, fn, cb): watchers that are not user watchers, with a
\* getter that throws once x is 2, with a callback that throws
RawKinds ==
  { [getter |-> "bad", cb |-> "none",  sync |-> FALSE, deep |-> FALSE],
    [getter |-> "x",   cb |-> "throw", sync |-> FALSE, deep |-> FALSE] }

\* vm.$watch: a callback that throws, one that does not
AbortKinds ==
  { [getter |-> "x",   cb |-> "throw", sync |-> FALSE, deep |-> FALSE],
    [getter |-> "x",   cb |-> "none",  sync |-> FALSE, deep |-> FALSE] }

\* new Watcher(vm, fn, cb, options) without options.user
HostNewWatcher(k) ==
  /\ CanHost
  /\ uid < MaxWatchers
  /\ EndHost(NewWatcher(HostJob(St),
       [getter |-> k.getter, cb |-> k.cb, sync |-> k.sync, deep |-> k.deep,
        lazy |-> FALSE, user |-> FALSE, imm |-> FALSE]))

NextAbort ==
  \/ \E f \in Fields, v \in Vals : HostWrite(f, v)
  \/ \E k \in RawKinds : HostNewWatcher(k)
  \/ \E k \in AbortKinds : HostWatch(k)
  \/ FlushCallbacks
  \/ FlushBegin
  \/ FlushStep
  \/ FlushEnd
  \/ FlushCallbacksEnd

SpecAbort == InitAbort /\ [][NextAbort]_vars

\* the loop of flushSchedulerQueue has an iteration to make
LoopContinues ==
  pc = "flush" /\ index < Len(queue) /\ index < MaxFlushRuns

\* the host runs every flushCallbacks it was asked to run, and a job that
\* has begun runs on to its end.  The last conjunct is WF_vars(FlushStep)
\* with ENABLED <<FlushStep>>_vars written out: FlushStep changes index or
\* pc whenever the loop has an iteration to make.
LiveAbort ==
  /\ InitAbort /\ [][NextAbort]_vars
  /\ WF_vars(FlushCallbacks) /\ WF_vars(FlushBegin)
  /\ WF_vars(FlushEnd) /\ WF_vars(FlushCallbacksEnd)
  /\ ([]<>~LoopContinues \/ []<><<FlushStep>>_vars)

\* ------------------------------------------- user code on composite data
\* data: {list: [{k: 1}], rec: {k: 1}, n: 1} and a separate {k: 1}
RawHeap ==
  [o \in {ROOT, LIST, REC, ELEM, PLAIN} |->
     CASE o = ROOT -> Obj("rec", [key \in {"list", "rec", "n"} |->
                            PlainProp(CASE key = "list" -> LIST
                                        [] key = "rec" -> REC
                                        [] key = "n" -> 1)], <<>>)
       [] o = LIST -> Obj("arr", <<>>, <<ELEM>>)
       [] o = REC -> Obj("rec", [key \in {"k"} |-> PlainProp(1)], <<>>)
       [] o = ELEM -> Obj("rec", [key \in {"k"} |-> PlainProp(1)], <<>>)
       [] o = PLAIN -> Obj("rec", [key \in {"k"} |-> PlainProp(1)], <<>>)]

\* initData: observe(data, true)
ObservedData ==
  Observe([heap |-> RawHeap, subs |-> <<>>, depUid |-> 0, ret |-> 0],
          ROOT, TRUE)

InitObs ==
  /\ InitCore
  /\ inBrowser = TRUE /\ errh = "none"
  /\ heap = ObservedData.heap
  /\ subs = ObservedData.subs
  /\ depUid = ObservedData.depUid

\* Watchers over composite data
ObsKinds ==
  { [getter |-> "list", cb |-> "none", sync |-> FALSE, deep |-> FALSE],
    [getter |-> "list", cb |-> "none", sync |-> TRUE,  deep |-> FALSE],
    [getter |-> "n",    cb |-> "none", sync |-> FALSE, deep |-> FALSE],
    [getter |-> "rk",   cb |-> "none", sync |-> FALSE, deep |-> FALSE],
    [getter |-> "rj",   cb |-> "none", sync |-> TRUE,  deep |-> FALSE] }

\* the record of a call on the heap and of what it returned
Called(s, name, o, key, val, c) ==
  [s EXCEPT !.op = [name |-> name, target |-> o, key |-> key, val |-> val,
                    start |-> c.start, del |-> c.del, args |-> c.args,
                    res |-> s.ret, resl |-> s.retl]]

NoArgs == [start |-> 0, del |-> 0, args |-> <<>>]

\* ------------------------------------------------------- calls of observe
\* the heap of SpecObs and three objects observe refuses
WrapHeap ==
  [o \in (DOMAIN ObservedData.heap) \cup {FROZEN, VM, VNODE} |->
     CASE o = FROZEN ->
            [Obj("rec", [key \in {"k"} |-> PlainProp(1)], <<>>)
               EXCEPT !.ext = FALSE]
       [] o = VM -> [Obj("rec", <<>>, <<>>) EXCEPT !.isVue = TRUE]
       [] o = VNODE -> [Obj("rec", <<>>, <<>>) EXCEPT !.vnode = TRUE]
       [] OTHER -> ObservedData.heap[o]]

InitWrap ==
  /\ InitCore
  /\ inBrowser = TRUE /\ errh = "none"
  /\ heap = WrapHeap
  /\ subs = ObservedData.subs
  /\ depUid = ObservedData.depUid

\* the values user code passes to observe
ObserveArgs == {Undef, 1, ROOT, LIST, REC, ELEM, PLAIN, FROZEN, VM, VNODE}

\* Vue.observable(v): observe(v); initData of another vm on the same data
\* object: observe(v, true)
HostObserve(v, asRootData) ==
  /\ CanHost
  /\ EndHost(Called(Observe(HostJob(St), v, asRootData),
                     "observe", 0, "", v, NoArgs))

\* Object.freeze(plain)
HostFreeze(o) ==
  /\ CanHost
  /\ heap[o].ext
  /\ EndHost(Called([HostJob(St) EXCEPT !.heap[o].ext = FALSE],
                     "freeze", o, "", 0, NoArgs))

\* vm.rec = v and vm.n = v with values observe accepts and refuses
WrapAssignments ==
  { <<ROOT, "rec", PLAIN>>, <<ROOT, "rec", FROZEN>>, <<ROOT, "rec", REC>>,
    <<ROOT, "n", VM>>, <<ROOT, "n", VNODE>>, <<ROOT, "n", 2>> }

\* vm.n = v, vm.rec = v, rec.k = v, rec.j = v, plain.k = v
Assignments ==
  { <<ROOT, "n", 1>>, <<ROOT, "n", 2>>, <<ROOT, "n", NaN>>,
    <<ROOT, "rec", REC>>, <<ROOT, "rec", PLAIN>>,
    <<REC, "k", 2>>, <<REC, "j", 2>>, <<PLAIN, "k", 2>> }

HostAssign(a) ==
  /\ CanHost
  /\ EndHost(Called(HeapAssign(HostJob(St), a[1], a[2], a[3]),
                     "assign", a[1], a[2], a[3], NoArgs))

\* the calls user code makes on vm.list
MutatorCalls ==
  { [name |-> "push",    start |-> 0, del |-> 0, args |-> <<2>>],
    [name |-> "push",    start |-> 0, del |-> 0, args |-> <<PLAIN>>],
    [name |-> "unshift", start |-> 0, del |-> 0, args |-> <<PLAIN>>],
    [name |-> "pop",     start |-> 0, del |-> 0, args |-> <<>>],
    [name |-> "shift",   start |-> 0, del |-> 0, args |-> <<>>],
    [name |-> "splice",  start |-> 0, del |-> 1, args |-> <<PLAIN>>],
    [name |-> "splice",  start |-> 1, del |-> 1, args |-> <<>>],
    [name |-> "sort",    start |-> 0, del |-> 0, args |-> <<>>],
    [name |-> "reverse", start |-> 0, del |-> 0, args |-> <<>>] }

\* vm.list.push(...), vm.list.pop(), ...
HostMutate(c) ==
  /\ CanHost
  /\ heap[LIST].ob
  /\ EndHost(Called(Mutator(HostJob(St), LIST, c), c.name, LIST, "", 0, c))

\* vm.list[i] = v for an index within the array
HostIndexAssign(i, v) ==
  /\ CanHost
  /\ i < Len(heap[LIST].items)
  /\ EndHost(Called([HostJob(St) EXCEPT !.heap[LIST].items[i + 1] = v],
                     "index", LIST, "", v,
                     [start |-> i, del |-> 0, args |-> <<>>]))

\* what user code passes to Vue.set and Vue.delete
SetCalls ==
  { <<REC, "j", 1>>, <<REC, "j", PLAIN>>, <<REC, "k", 2>>,
    <<PLAIN, "j", 1>>, <<ROOT, "j", 1>> }

DelCalls == { <<REC, "k">>, <<REC, "j">>, <<PLAIN, "k">>, <<ROOT, "n">> }

\* Vue.set(target, key, val)
HostSet(a) ==
  /\ CanHost
  /\ EndHost(Called(Set(HostJob(St), a[1], a[2], a[3]),
                     "set", a[1], a[2], a[3], NoArgs))

\* Vue.set(vm.list, i, val)
HostSetIndex(i, v) ==
  /\ CanHost
  /\ i <= Len(heap[LIST].items)
  /\ EndHost(Called(SetIndex(HostJob(St), LIST, i, v), "setindex", LIST, "", v,
                     [start |-> i, del |-> 1, args |-> <<v>>]))

\* Vue.delete(target, key)
HostDel(a) ==
  /\ CanHost
  /\ EndHost(Called(Del(HostJob(St), a[1], a[2]),
                     "del", a[1], a[2], 0, NoArgs))

NextObs ==
  \/ \E k \in ObsKinds : HostWatch(k)
  \/ \E a \in Assignments : HostAssign(a)
  \/ \E c \in MutatorCalls : HostMutate(c)
  \/ HostIndexAssign(0, 2)
  \/ \E a \in SetCalls : HostSet(a)
  \/ HostSetIndex(0, 2)
  \/ \E a \in DelCalls : HostDel(a)
  \/ FlushCallbacks
  \/ FlushBegin
  \/ FlushStep
  \/ FlushEnd
  \/ FlushCallbacksEnd

SpecObs == InitObs /\ [][NextObs]_vars

\* ---------------------------------------------- watchers of array members
\* data: {list: [{k: 1}, [{k: 1}]], rec: {k: 1}, fl: Object.freeze([rec])}
ArrRawHeap ==
  [o \in {ROOT, LIST, INNER, REC, ELEM, PLAIN, FLIST} |->
     CASE o = ROOT -> Obj("rec", [key \in {"list", "rec", "fl"} |->
                            PlainProp(CASE key = "list" -> LIST
                                        [] key = "rec" -> REC
                                        [] key = "fl" -> FLIST)], <<>>)
       [] o = LIST -> Obj("arr", <<>>, <<ELEM, INNER>>)
       [] o = INNER -> Obj("arr", <<>>, <<PLAIN>>)
       [] o = FLIST -> [Obj("arr", <<>>, <<REC>>) EXCEPT !.ext = FALSE]
       [] OTHER -> Obj("rec", [key \in {"k"} |-> PlainProp(1)], <<>>)]

\* initData: observe(data, true)
ObservedArrays ==
  Observe([heap |-> ArrRawHeap, subs |-> <<>>, depUid |-> 0, ret |-> 0],
          ROOT, TRUE)

InitArr ==
  /\ InitCore
  /\ inBrowser = TRUE /\ errh = "none"
  /\ heap = ObservedArrays.heap
  /\ subs = ObservedArrays.subs
  /\ depUid = ObservedArrays.depUid

\* vm.$watch('list', cb), vm.$watch('fl', cb)
ArrKinds ==
  { [getter |-> "list", cb |-> "none", sync |-> FALSE, deep |-> FALSE],
    [getter |-> "fl",   cb |-> "none", sync |-> FALSE, deep |-> FALSE] }

\* Vue.set(element, 'j', 1) on the elements of the arrays
ArrSetCalls ==
  { <<ELEM, "j", 1>>, <<PLAIN, "j", 1>>, <<REC, "j", 1>>, <<REC, "k", 2>> }

NextArr ==
  \/ \E k \in ArrKinds : HostWatch(k)
  \/ \E a \in ArrSetCalls : HostSet(a)
  \/ \E w \in 1..MaxWatchers : HostUnwatch(w)
  \/ FlushCallbacks
  \/ FlushBegin
  \/ FlushStep
  \/ FlushEnd
  \/ FlushCallbacksEnd

SpecArr == InitArr /\ [][NextArr]_vars

\* calls of observe, and the writes that call it, on a heap with objects it
\* refuses; no watchers
WrapMutations ==
  { [name |-> "push", start |-> 0, del |-> 0, args |-> <<PLAIN>>],
    [name |-> "push", start |-> 0, del |-> 0, args |-> <<FROZEN>>] }

NextWrap ==
  \/ \E v \in ObserveArgs, r \in BOOLEAN : HostObserve(v, r)
  \/ HostFreeze(PLAIN)
  \/ \E a \in WrapAssignments : HostAssign(a)
  \/ \E c \in WrapMutations : HostMutate(c)

SpecWrap == InitWrap /\ [][NextWrap]_vars

\* Vue.set and Vue.delete on the root data object, on a Vue instance, on a
\* record user code may have observed as root data, and on a nested record
RootCalls ==
  { <<ROOT, "j", 1>>, <<ROOT, "n", 2>>, <<VM, "j", 1>>,
    <<PLAIN, "j", 1>>, <<PLAIN, "k", 2>>, <<REC, "k", 2>> }

NextRoot ==
  \/ \E k \in ObsKinds : HostWatch(k)
  \/ \E r \in BOOLEAN : HostObserve(PLAIN, r)
  \/ \E a \in RootCalls : HostSet(a)
  \/ \E a \in RootCalls : HostDel(a)
  \/ FlushCallbacks
  \/ FlushBegin
  \/ FlushStep
  \/ FlushEnd
  \/ FlushCallbacksEnd

SpecRoot == InitWrap /\ [][NextRoot]_vars

TypeOK ==
  /\ pc \in {"idle", "cbs", "flush"}
  /\ uid = Len(W)
  /\ Len(insAt) = Len(queue)

\* ---------------------------------------------------------------- claims
\* The value a getter yields over the current state
DataVal(g) ==
  CASE g = "x"   -> data["x"]
    [] g = "y"   -> data["y"]
    [] g = "sum" -> data["x"] + data["y"]
    [] g = "xx"  -> data["x"] + data["x"]
    [] g = "sel" -> IF plain = 0 THEN data["x"] ELSE data["y"]

PureVal(g) ==
  IF g = "c" THEN (IF comp = 0 THEN Undef ELSE DataVal(W[comp].getter))
  ELSE DataVal(g)

CallsOf(w) == SelectSeq(calls, LAMBDA e : e.w = w)

\* flushSchedulerQueue has left its loop and not yet reset the scheduler
AtLoopEnd == pc = "flush" /\ index >= Len(queue)

\* w is neither lazy nor sync, was queued before the running flush began,
\* no update() reached it during the flush, and it is still active
Batched(w) ==
  /\ ~W[w].lazy /\ ~W[w].sync /\ W[w].active
  /\ w \in Range(pushed)
  /\ w \notin touched

\* C1 as stated: the writes of one tick give a batched watcher exactly one
\* run in the flush and exactly one callback invocation, with the new value
\* computed from the final state and the old value held before the tick.
C1_Original ==
  AtLoopEnd =>
    \A w \in 1..uid : Batched(w) =>
      /\ Count(queue, w) = 1 /\ Count(gets, w) = 1
      /\ CallsOf(w) = <<[w |-> w, new |-> PureVal(W[w].getter),
                         old |-> pre[w], act |-> TRUE]>>

\* C1 amended: exactly one run; exactly one callback invocation, with
\* (value over the final state, value before the tick), when that value
\* differs from the value before the tick or the watcher is deep, and no
\* callback invocation otherwise.
C1_Batching ==
  AtLoopEnd =>
    \A w \in 1..uid : Batched(w) =>
      /\ Count(queue, w) = 1 /\ Count(gets, w) = 1
      /\ CallsOf(w) =
           IF PureVal(W[w].getter) # pre[w] \/ W[w].deep
             THEN <<[w |-> w, new |-> PureVal(W[w].getter),
                     old |-> pre[w], act |-> TRUE]>>
             ELSE <<>>

\* x=1, y=1, a watcher on x+y, x=2 then y=2 in one tick: one callback (4, 2)
C1_Witness ==
  /\ AtLoopEnd
  /\ \E w \in 1..uid :
       /\ Batched(w) /\ W[w].getter = "sum"
       /\ calls = <<[w |-> w, new |-> 4, old |-> 2, act |-> TRUE]>>

\* C2 as stated: in one flush a watcher with a lower id never runs after a
\* watcher with a higher id, watchers queued during the flush included.
C2_Original ==
  flushing =>
    \A i, j \in 1..index : i < j => queue[i] <= queue[j]

\* C2 amended: of two watchers that were queued at the same time, the one
\* with the lower id runs first, whatever the order of their invalidations;
\* a watcher queued while the flush is executing runs after the watchers
\* already dequeued, whatever their ids, and in id order among the others.
C2_Ordering ==
  flushing =>
    \A i, j \in 1..Len(queue) :
      i < j => (queue[i] < queue[j] \/ insAt[j] >= i)

\* watcher 2 was invalidated first, watcher 1 second; 1 ran, then 2
C2_Witness ==
  /\ pc = "flush" /\ index = 2
  /\ pushed = <<2, 1>>
  /\ queue = <<1, 2>>

\* C3: a watcher re-queued during every one of its runs is halted after
\* MAX_UPDATE_COUNT re-entries, so no watcher runs more than
\* MAX_UPDATE_COUNT + 1 times within one flush.
C3_CircularBound ==
  \A w \in 1..uid :
    Count(SubSeq(queue, 1, index), w) <= MAX_UPDATE_COUNT + 1

\* C4: when a get of a watcher has completed, the watcher is subscribed to
\* exactly the Deps whose depend() reached it during that get.
C4_Pruning ==
  \A w \in 1..uid : subAt[w] = fired[w]

\* the "sel" watcher read x on its first get and, re-run by the flush after
\* a write of x, read y instead: it ends subscribed to y and not to x
C4_Witness ==
  /\ pc = "flush"
  /\ data = [x |-> 2, y |-> 1]
  /\ \E w \in 1..uid :
       /\ W[w].getter = "sel" /\ w \in Range(gets)
       /\ fired[w] = {"y"}
       /\ w \in Range(subs["y"]) /\ w \notin Range(subs["x"])

\* C5: no Dep has the same watcher twice in subs.
C5_NoDuplicateSub ==
  \A d \in Fields : \A i, j \in 1..Len(subs[d]) :
    i # j => subs[d][i] # subs[d][j]

\* a watcher whose getter reads x twice is once in the subs of x's Dep
C5_Witness ==
  \E w \in 1..uid :
    /\ W[w].getter = "xx" /\ w \in Range(gets)
    /\ Count(subs["x"], w) = 1

\* The reads of a computed property made in the current job
C6_Reads ==
  \A e \in Range(creads) :
    /\ e.dirty0 => (e.n = 1 /\ ~e.dirty1)
    /\ ~e.dirty0 => (e.n = 0 /\ ~e.dirty1 /\ e.ret = e.old)

\* A lazy watcher's getter runs only inside such a read, and a lazy watcher
\* that is not dirty holds its getter's value over the current state
C6_Cache ==
  \A w \in 1..uid : W[w].lazy =>
    /\ Count(gets, w) =
         Cardinality({i \in 1..Len(creads) : creads[i].w = w /\ creads[i].n = 1})
    /\ ~W[w].dirty => W[w].value = DataVal(W[w].getter)
    /\ w \notin Range(queue)

\* A step that constructs a lazy watcher leaves it dirty, with no value, and
\* does not invoke its getter
C6_Construct ==
  \A w \in (DOMAIN W') \ (DOMAIN W) :
    W'[w].lazy => (W'[w].dirty /\ W'[w].value = Undef /\ w \notin Range(gets'))

\* C6: a lazy watcher is not evaluated at construction; a read through the
\* computed getter while dirty invokes the getter once and clears dirty; a
\* read while not dirty returns the cached value without invoking it; a
\* write to an upstream member only sets dirty.
C6_LazyCorrect ==
  [](C6_Reads /\ C6_Cache) /\ [][C6_Construct]_vars

\* a read that found the watcher dirty after a write of x and recomputed
C6_Witness ==
  \E i \in 1..Len(creads) :
    /\ creads[i].dirty0 /\ creads[i].n = 1
    /\ creads[i].old = 1 /\ creads[i].ret = 2

\* C7: the callback of a watcher is never invoked once the watcher has been
\* torn down, and tearing down a torn-down watcher changes nothing.
C7_Teardown ==
  /\ \A i \in 1..Len(calls) : calls[i].act
  /\ \A w \in 1..uid : ~W[w].active => Teardown(St, w) = St

\* watcher 2 was torn down by the callback of the sync watcher 1 while the
\* notify of x still held it in its snapshot; its update() queued it and the
\* flush has run it: its value is stale and no callback was invoked
C7_Witness ==
  /\ ops = 3 /\ pc = "flush" /\ index = 1
  /\ queue = <<2>>
  /\ ~W[2].active
  /\ W[2].value # PureVal(W[2].getter)
  /\ calls = <<>>

\* the batcher is about to execute the user callback copies[i]
AtUserCallback ==
  pc = "cbs" /\ ci < Len(copies) /\ copies[ci + 1].k = "user"

\* C8 as stated: when a nextTick callback executes, every watcher
\* invalidated in its tick, before or after the nextTick call, has been run.
C8_Original ==
  AtUserCallback => copies[ci + 1].tick = {}

\* C8 amended: when a nextTick callback executes, every watcher that was
\* queued and not yet run at the moment of the nextTick call has been run
\* by flushSchedulerQueue.
C8_AfterFlush ==
  AtUserCallback => copies[ci + 1].left = {}

\* a callback queued while a watcher was pending is about to execute; the
\* flush ran just before it in the same batch
C8_Witness ==
  /\ AtUserCallback
  /\ copies[ci + 1].at # {} /\ copies[ci + 1].left = {}
  /\ ci >= 1 /\ copies[ci].k = "flush"
  /\ gets # <<>>

\* C9: callbacks execute in the order of their nextTick calls: the next one
\* to execute is the call that follows the calls already executed.
C9_Fifo ==
  (pc = "cbs" /\ ci < Len(copies)) => copies[ci + 1].tag = done + 1

\* the second callback of a batch that is not the first batch
C9_Witness ==
  /\ pc = "cbs" /\ ci = 1 /\ Len(copies) >= 2
  /\ done >= 2
  /\ copies[2].tag = done + 1

\* C10: at most one flushCallbacks is scheduled and not yet started, and
\* pending is true exactly while there is one.
C10_OneTimer ==
  /\ timers <= 1
  /\ pending <=> (timers = 1)

\* two calls of nextTick in a row: one scheduled flush holds both callbacks
C10_Witness ==
  /\ pending /\ timers = 1
  /\ Len(callbacks) >= 2

\* flushSchedulerQueue entries the batcher holds and has not finished: those
\* in callbacks and those of copies from the current position on
FlushEntries ==
  Cardinality({j \in 1..Len(callbacks) : callbacks[j].k = "flush"})
  + Cardinality({j \in (ci + 1)..Len(copies) : copies[j].k = "flush"})

\* C11: flushSchedulerQueue is handed to nextTick once per flush cycle: the
\* batcher never holds two flushSchedulerQueue entries, it holds one exactly
\* while waiting is set, every queued watcher has that flush ahead of it,
\* and the loop of the flush has run every watcher queued before it started.
C11_OneFlush ==
  /\ FlushEntries <= 1
  /\ waiting <=> (FlushEntries = 1)
  /\ queue # <<>> => waiting
  /\ AtLoopEnd => \A w \in Range(pushed) : w \in Range(SubSeq(queue, 1, index))

\* two watchers were queued before the flush started; the one flush ran both
C11_Witness ==
  /\ AtLoopEnd
  /\ Len(pushed) = 2 /\ pushed[1] # pushed[2]
  /\ Len(gets) >= 2
  /\ FlushEntries = 1

\* C12 as stated: no watcher id appears twice in queue within one flush
\* cycle.
C12_Original ==
  \A w \in 1..uid : Count(queue, w) <= 1

\* C12 amended: no watcher id appears twice in the part of queue that has
\* not been dequeued (the whole queue before the flush, the positions after
\* index during it); a watcher invalidated after its own dequeue is queued
\* again, so queue as a whole may hold its id once per run.
C12_Dedup ==
  \A i, j \in (index + 1)..Len(queue) : i # j => queue[i] # queue[j]

\* watcher 1 wrote its own dependency while it ran and was queued again,
\* behind itself and ahead of watcher 2, after a second update() of the
\* pending watcher 2 was dropped
C12_Witness ==
  /\ pc = "flush" /\ index = 1
  /\ queue = <<1, 1, 2>>
  /\ 2 \in touched

\* handleError returns instead of throwing
ChainReturns == inBrowser \/ errh = "ok"

\* every invocation of a throwing watcher callback made in the current job
\* was followed by a call of handleError for it
CbRouted ==
  \A w \in 1..uid : W[w].cb = "throw" =>
    Len(CallsOf(w)) =
      Cardinality({i \in 1..Len(errs) : errs[i] = [info |-> "callback", w |-> w]})

\* C13 as stated: a throwing watcher callback is routed to handleError and
\* never takes flushSchedulerQueue out of its loop.
C13_Original ==
  /\ CbRouted
  /\ flushing <=> (pc = "flush")

\* C13 amended: a throwing watcher callback is routed to handleError; where
\* handleError returns (a browser host, or a config.errorHandler that
\* returns) flushSchedulerQueue stays in its loop until the queue is
\* exhausted, whatever callbacks throw.
C13_FlushSurvives ==
  /\ CbRouted
  /\ ChainReturns => (flushing <=> (pc = "flush"))

\* the callback of watcher 1 threw, handleError got it, watcher 2 ran
C13_Witness ==
  /\ AtLoopEnd
  /\ queue = <<1, 2>>
  /\ W[1].cb = "throw" /\ Len(CallsOf(1)) = 1
  /\ errs = <<[info |-> "callback", w |-> 1]>>
  /\ gets = <<1, 2>>

\* what holds of a get whose getter threw, whoever the watcher is: the
\* watcher was popped (Dep.target and the depth of targetStack are those
\* found at entry) and cleanupDeps ran (the watcher is subscribed to exactly
\* the Deps read before the throw, and newDeps is empty)
GetUnwound(e) ==
  /\ e.target1 = e.target0 /\ e.depth1 = e.depth0
  /\ e.subs1 = e.read /\ e.left = 0

\* C14 as stated: a getter error of a user watcher goes to handleError and
\* get returns undefined; that of another watcher is re-thrown by get.
C14_Original ==
  \A i \in 1..Len(throws) :
    LET e == throws[i]
    IN /\ e.user => (e.routed = 1 /\ ~e.rethrown)
       /\ ~e.user => (e.routed = 0 /\ e.rethrown)
       /\ GetUnwound(e)

\* C14 amended: a getter error of a user watcher goes to handleError, and
\* get returns undefined where handleError returns and throws where
\* handleError throws (no browser host and no config.errorHandler that
\* returns); that of another watcher is re-thrown by get without
\* handleError; in every case the watcher is popped and cleanupDeps runs.
C14_GetterError ==
  \A i \in 1..Len(throws) :
    LET e == throws[i]
    IN /\ e.user => (e.routed = 1 /\ (e.rethrown <=> ~ChainReturns))
       /\ ~e.user => (e.routed = 0 /\ e.rethrown)
       /\ GetUnwound(e)

\* in a flush, a user watcher read a computed property whose getter threw
\* after reading x: the get of the lazy watcher re-threw, the get of the
\* user watcher handed the error to handleError and returned undefined
C14_Witness ==
  /\ pc = "flush"
  /\ Len(throws) = 2
  /\ ~throws[1].user /\ throws[1].rethrown /\ throws[1].read = {"x"}
  /\ throws[2].user /\ throws[2].routed = 1 /\ ~throws[2].rethrown
  /\ W[throws[2].w].value = Undef

\* pending is set exactly while a flushCallbacks is scheduled, and callbacks
\* holds nothing while none is scheduled or running: the next nextTick call
\* finds pending false and schedules one
BatcherReady ==
  /\ pending <=> (timers = 1)
  /\ (~pending /\ pc = "idle") => callbacks = <<>>

\* the batcher is about to execute a callback that throws
AtThrowingCallback ==
  pc = "cbs" /\ ci < Len(copies) /\ copies[ci + 1].k = "userthrow"

\* C15 as stated: a throwing nextTick callback never takes flushCallbacks
\* out of its loop, and the batcher stays able to schedule.
C15_Original ==
  /\ "cbs" \notin aborted
  /\ BatcherReady

\* a step that executes a throwing callback hands the error to handleError
\* and, where handleError returns, moves on to the next callback of copies
C15_Routed ==
  AtThrowingCallback =>
    /\ errs' = <<[info |-> "nextTick", w |-> 0]>>
    /\ ChainReturns => (pc' = "cbs" /\ ci' = ci + 1 /\ copies' = copies)

\* C15 amended: a throwing nextTick callback is routed to handleError;
\* where handleError returns (a browser host, or a config.errorHandler that
\* returns) the callbacks queued after it in the batch still run; on every
\* host pending and callbacks are left so that a later nextTick call
\* schedules a new flush.
C15_Isolation ==
  /\ [](ChainReturns => "cbs" \notin aborted)
  /\ []BatcherReady
  /\ [][C15_Routed]_vars

\* the first callback of a batch threw and the second one has run
C15_Witness ==
  /\ pc = "cbs" /\ ci = 2 /\ done = 2
  /\ copies[1].k = "userthrow" /\ copies[2].k = "user"
  /\ aborted = {}

\* the seven patched methods
MethodsToPatch ==
  {"push", "pop", "shift", "unshift", "splice", "sort", "reverse"}

\* the step is a host job that made the call op' on the heap
HeapCall(names) == ops' = ops + 1 /\ op'.name \in names

\* A step that calls a patched method on the observed array leaves the
\* array as the native method leaves it and returns the native result; each
\* object inserted carries an Observer afterwards; notify() was called once,
\* on the Dep of the array's Observer, and nowhere else; a watcher of the
\* array run by that notify found the array mutated and the inserted
\* objects observed (it ended subscribed to the Observer Dep of every
\* object in the array).
C16_Mutator ==
  HeapCall(MethodsToPatch) =>
    LET a == op'.target
        nat == Native(a, heap[a].items, op')
        ins == IF op'.name \in {"push", "unshift", "splice"}
                 THEN op'.args ELSE <<>>
    IN /\ heap'[a].items = nat.items
       /\ op'.res = nat.res /\ op'.resl = nat.resl
       /\ \A i \in 1..Len(ins) : IsObject(ins[i]) => heap'[ins[i]].ob
       /\ notified' = <<heap[a].obdep>>
       /\ \A w \in Range(gets') : W'[w].getter = "list" =>
            \A i \in 1..Len(heap'[a].items) :
              IsObject(heap'[a].items[i]) =>
                w \in Range(subs'[heap'[heap'[a].items[i]].obdep])

\* A step that assigns to an index of the array stores the value, calls no
\* notify() and runs no watcher.
C16_Index ==
  HeapCall({"index"}) =>
    /\ heap'[LIST].items[op'.start + 1] = op'.val
    /\ notified' = <<>> /\ gets' = <<>>
    /\ queue' = queue

\* C16: each patched mutator called on an observed array performs the
\* native mutation, observes every newly inserted element, calls notify()
\* on the Dep of the array's Observer exactly once and returns the native
\* result; a plain index assignment calls no notify.
C16_Interception ==
  [][C16_Mutator /\ C16_Index]_vars

\* push of a plain object onto the array while a sync watcher reads the
\* array: the object got an Observer, one notify ran the watcher, which
\* subscribed to the Observer Dep of the pushed object; push returned 2
C16_Witness ==
  /\ op.name = "push" /\ op.args = <<PLAIN>> /\ op.res = 2
  /\ heap[LIST].items = <<ELEM, PLAIN>>
  /\ heap[PLAIN].ob
  /\ notified = <<heap[LIST].obdep>>
  /\ Len(gets) = 1
  /\ gets[1] \in Range(subs[heap[PLAIN].obdep])

\* A step in which $watch registers watchers and returns: the callback of
\* each one registered with immediate was invoked once in that step, with
\* the value the watcher holds, and that of each one registered without
\* immediate was not invoked.
C17_Registration ==
  (uid' > uid /\ aborted' = aborted) =>
    \A w \in (uid + 1)..uid' :
      SelectSeq(calls', LAMBDA e : e.w = w) =
        IF W'[w].imm
          THEN <<[w |-> w, new |-> W'[w].value, old |-> Undef, act |-> TRUE]>>
          ELSE <<>>

\* No read made by an immediate callback (it reads y) has subscribed a
\* watcher whose getter reads x only, in particular not the watcher inside
\* whose getter $watch was called.
C17_NoDependency ==
  \A w \in 1..uid :
    W[w].getter \in {"x", "mk"} => w \notin Range(subs["y"])

\* C17: $watch with immediate: true invokes the callback exactly once,
\* synchronously, with the watcher's initial value, before it returns, and
\* the reads of that callback register no dependency on any watcher;
\* without immediate the callback is not invoked at registration.
C17_Immediate ==
  []C17_NoDependency /\ [][C17_Registration]_vars

\* $watch with immediate was called inside the getter of watcher 1, which
\* was being evaluated: the callback of the new watcher 2 ran, and watcher 1
\* is subscribed to x only
C17_Witness ==
  /\ uid = 2
  /\ W[1].getter = "mk" /\ W[2].imm
  /\ gets = <<1, 2>>
  /\ calls = <<[w |-> 2, new |-> 1, old |-> Undef, act |-> TRUE]>>
  /\ subAt[1] = {"x"}

\* C18: a step that calls set with a key absent from the target: on an
\* observed record that is not root data the new member holds the value
\* behind a getter/setter pair with a new Dep, notify() was called once, on
\* the Dep of the target's Observer, and a watcher of that member run by
\* the notify is subscribed to the new Dep; on a target without Observer
\* the member is a plain property and no notify() was called.
C18_SetStep ==
  (HeapCall({"set"}) /\ op'.key \notin DOMAIN heap[op'.target].props) =>
    LET o == op'.target
        key == op'.key
    IN /\ (heap[o].ob /\ heap[o].vmCount = 0) =>
            /\ key \in DOMAIN heap'[o].props
            /\ heap'[o].props[key].reactive
            /\ heap'[o].props[key].val = op'.val
            /\ heap'[o].props[key].dep \in (DOMAIN subs') \ (DOMAIN subs)
            /\ notified' = <<heap[o].obdep>>
            /\ \A w \in Range(gets') :
                 (W'[w].getter = "rj" /\ key = "j"
                    /\ heap'[ROOT].props["rec"].val = o) =>
                   w \in Range(subs'[heap'[o].props[key].dep])
       /\ ~heap[o].ob =>
            /\ heap'[o].props = SetKey(heap[o].props, key, PlainProp(op'.val))
            /\ notified' = <<>>
            /\ depUid' = depUid

\* a write to a member that set made reactive notifies the member's Dep
C18_LaterWrite ==
  (HeapCall({"assign"}) /\ op'.key = "j" /\ op'.target = REC
     /\ "j" \in DOMAIN heap[REC].props /\ heap[REC].props["j"].reactive
     /\ heap[REC].props["j"].val # op'.val) =>
    notified' = <<heap[REC].props["j"].dep>>

C18_Set ==
  [][C18_SetStep /\ C18_LaterWrite]_vars

\* set(rec, 'j', 1) while a sync watcher reads rec.j: the notify of the
\* Dep of rec's Observer ran the watcher, which read the new member
C18_Witness ==
  /\ op.name = "set" /\ op.target = REC /\ op.key = "j"
  /\ heap[REC].props["j"].reactive
  /\ notified = <<heap[REC].obdep>>
  /\ Len(gets) = 1 /\ W[gets[1]].getter = "rj"
  /\ gets[1] \in Range(subs[heap[REC].props["j"].dep])
  /\ W[gets[1]].value = 1

\* C19: a step that calls del on a record: notify() is called at most once,
\* on the Dep of the target's Observer, and only if the key was an own key
\* and the target carried an Observer; with the key absent nothing changes;
\* with an own key the key is deleted, silently from a target without
\* Observer and with the notify from an observed record that is not root
\* data.
C19_DelStep ==
  HeapCall({"del"}) =>
    LET o == op'.target
        key == op'.key
        own == key \in DOMAIN heap[o].props
    IN /\ notified' # <<>> => (own /\ heap[o].ob /\ notified' = <<heap[o].obdep>>)
       /\ ~own => (heap' = heap /\ notified' = <<>>)
       /\ (own /\ ~heap[o].ob /\ ~heap[o].isVue) =>
            (heap'[o].props = DelKey(heap[o].props, key) /\ notified' = <<>>)
       /\ (own /\ heap[o].ob /\ heap[o].vmCount = 0) =>
            (heap'[o].props = DelKey(heap[o].props, key)
             /\ notified' = <<heap[o].obdep>>)

C19_Del ==
  [][C19_DelStep]_vars

\* del(rec, 'k') while a watcher of rec.k is subscribed to the Dep of rec's
\* Observer: the key is gone and the watcher is queued
C19_Witness ==
  /\ op.name = "del" /\ op.target = REC /\ op.key = "k"
  /\ "k" \notin DOMAIN heap[REC].props
  /\ notified = <<heap[REC].obdep>>
  /\ Len(queue) = 1 /\ W[queue[1]].getter = "rk"

\* C20: a step that assigns to a reactive member: a value identical to the
\* current one changes nothing and notifies nobody; a different value is
\* stored, gets an Observer if it is an object, which becomes the childOb
\* of the member, and notify() is called once, on the member's Dep.
C20_AssignStep ==
  (HeapCall({"assign"})
     /\ op'.key \in DOMAIN heap[op'.target].props
     /\ heap[op'.target].props[op'.key].reactive) =>
    LET o == op'.target
        key == op'.key
        v == op'.val
        p == heap[o].props[key]
    IN /\ v = p.val =>
            (heap' = heap /\ notified' = <<>> /\ queue' = queue /\ gets' = <<>>)
       /\ v # p.val =>
            /\ heap'[o].props[key].val = v
            /\ heap'[o].props[key].dep = p.dep
            /\ notified' = <<p.dep>>
            /\ heap'[o].props[key].childOb = IF IsObject(v) THEN v ELSE 0
            /\ IsObject(v) => heap'[v].ob

C20_Setter ==
  [][C20_AssignStep]_vars

\* vm.rec was assigned the plain object, which got an Observer; the flush
\* has re-run the watcher of vm.rec.k, which is subscribed to the Dep of
\* that Observer and to the Dep of the member k of the new object
C20_Witness ==
  /\ heap[ROOT].props["rec"].val = PLAIN
  /\ heap[ROOT].props["rec"].childOb = PLAIN
  /\ heap[PLAIN].ob
  /\ pc = "flush" /\ index = 1
  /\ W[queue[1]].getter = "rk"
  /\ queue[1] \in Range(subs[heap[PLAIN].obdep])
  /\ queue[1] \in Range(subs[heap[PLAIN].props["k"].dep])
  /\ queue[1] \notin Range(subs[heap[REC].obdep])

\* C21: a step that calls observe(value): on an object that carries an
\* Observer it returns that Observer and creates no Dep and installs no
\* getter/setter (only vmCount grows, with asRootData); on a primitive, a
\* VNode, a Vue instance, or a non-extensible object without Observer it
\* returns nothing and changes nothing; on any other object it returns a
\* new Observer.
C21_ObserveStep ==
  HeapCall({"observe"}) =>
    LET v == op'.val
    IN IF ~IsObject(v) THEN op'.res = 0 /\ heap' = heap /\ depUid' = depUid
       ELSE IF heap[v].vnode
         THEN op'.res = 0 /\ heap' = heap /\ depUid' = depUid
       ELSE IF heap[v].ob
         THEN /\ op'.res = v
              /\ depUid' = depUid
              /\ subs' = subs
              /\ \E n \in {0, 1} : heap' = [heap EXCEPT ![v].vmCount = @ + n]
       ELSE IF ~heap[v].ext \/ heap[v].isVue
         THEN op'.res = 0 /\ heap' = heap /\ depUid' = depUid
       ELSE /\ op'.res = v
            /\ heap'[v].ob
            /\ heap'[v].obdep \in (DOMAIN subs') \ (DOMAIN subs)

C21_Idempotent ==
  [][C21_ObserveStep]_vars

\* C21 as stated: observe returns nothing for every non-extensible value
C21_Original ==
  [][HeapCall({"observe"}) =>
       LET v == op'.val
       IN /\ (IsObject(v) /\ heap[v].ob) =>
               (op'.res = v /\ depUid' = depUid /\ subs' = subs)
          /\ (~IsObject(v) \/ heap[v].vnode \/ ~heap[v].ext \/ heap[v].isVue)
               => op'.res = 0]_vars

\* observe(plain) after observe(plain) and Object.freeze(plain): the call
\* returned the Observer the first call made
C21_Witness ==
  /\ op.name = "observe" /\ op.val = PLAIN /\ op.res = PLAIN
  /\ heap[PLAIN].ob /\ ~heap[PLAIN].ext
  /\ heap[PLAIN].vmCount = 0

\* the batcher is about to execute the wrapper of a nextTick call without
\* callback
AtPromise ==
  pc = "cbs" /\ ci < Len(copies) /\ copies[ci + 1].k = "promise"

\* C22: the promise of a nextTick call without callback is resolved exactly
\* when the batcher has executed the callbacks up to the one of that call:
\* not while an earlier callback is still to run, and not later than its own
\* position; when its wrapper is about to run, the callbacks of all earlier
\* calls have run and every watcher that was queued at the call has been run
\* by the flush.
C22_Position ==
  /\ promises.resolved \subseteq promises.made
  /\ \A t \in promises.made : t \in promises.resolved <=> t <= done
  /\ AtPromise =>
       /\ copies[ci + 1].tag = done + 1
       /\ copies[ci + 1].left = {}
       /\ copies[ci + 1].tag \notin promises.resolved

\* the only step that resolves a promise is the batcher executing its entry
C22_Resolve ==
  promises'.resolved # promises.resolved =>
    /\ AtPromise
    /\ promises'.resolved = promises.resolved \cup {copies[ci + 1].tag}
    /\ ci' = ci + 1

C22_Promise ==
  []C22_Position /\ [][C22_Resolve]_vars

\* a promise made while a watcher was pending has just been resolved, after
\* the flush queued before it in the same batch
C22_Witness ==
  /\ pc = "cbs" /\ ci = 2 /\ Len(copies) >= 2
  /\ copies[1].k = "flush" /\ copies[2].k = "promise"
  /\ copies[2].at # {}
  /\ copies[2].tag \in promises.resolved

\* C23: every read of the computed property made in the current job
\* returned what the getter of its lazy watcher gives over the state at the
\* read.
C23_Fresh ==
  \A i \in 1..Len(creads) : creads[i].ret = creads[i].fresh

\* the part of queue the loop of the flush has not reached
Ahead == SubSeq(queue, index + 1, Len(queue))

\* C24: while flushSchedulerQueue executes, the pending watchers are the
\* watchers ahead of the loop, so every watcher queueWatcher accepted during
\* the flush is run by this flush before resetSchedulerState; each watcher
\* whose update() came during the flush and that goes through the scheduler
\* is in queue, and one spliced in stands behind the watcher that was
\* running; and the batcher holds no flushSchedulerQueue entry besides the
\* one that is executing.
C24_SameFlush ==
  pc = "flush" =>
    /\ has = Range(Ahead)
    /\ \A w \in touched : (~W[w].lazy /\ ~W[w].sync) => w \in Range(queue)
    /\ \A j \in 1..Len(queue) : insAt[j] > 0 => j > insAt[j]
    /\ \A j \in 1..Len(callbacks) : callbacks[j].k # "flush"
    /\ \A j \in 1..Len(copies) : copies[j].k = "flush" => j = ci + 1
    /\ AtLoopEnd => has = {}

\* the callback of watcher 1 wrote y during the flush; watcher 2, which was
\* not pending, was spliced in and has been run by the same flush
C24_Witness ==
  /\ AtLoopEnd
  /\ pushed = <<1>> /\ queue = <<1, 2>> /\ insAt = <<0, 1>>
  /\ gets = <<1, 2>>
  /\ FlushEntries = 1

\* C25: every splice of queueWatcher during a flush put the watcher behind
\* the running watcher and left the queue behind the running watcher in
\* ascending id order; between the iterations of the loop the part of queue
\* ahead of the loop is in ascending id order.
C25_SortedAhead ==
  /\ \A e \in Range(splices) :
       /\ e.at > e.idx
       /\ \A i, j \in 1..Len(e.rest) : i < j => e.rest[i] < e.rest[j]
  /\ flushing => \A i, j \in 1..Len(Ahead) : i < j => Ahead[i] < Ahead[j]

\* watcher 1, running first, invalidated itself: the scan passed the
\* pending watcher 2 and stopped at the running watcher, so watcher 1 was
\* spliced in behind itself and ahead of watcher 2
C25_Witness ==
  /\ pc = "flush"
  /\ \E e \in Range(splices) :
       /\ e.w = 1 /\ e.idx = 1 /\ e.at = 2
       /\ e.rest = <<1, 2>>

\* C26: every notify() calls update() once on each watcher its Dep held when
\* it began, in the order of subs then, whatever the runs of sync watchers
\* add to or remove from subs meanwhile; a watcher added meanwhile is not
\* among them.
C26_Snapshot ==
  \A n \in 1..Len(notifies) :
    /\ notifies[n].upd = notifies[n].snap
    /\ \A w \in Range(notifies[n].upd) : Count(notifies[n].upd, w) = 1

\* the write of x ran sync watcher 2, whose callback wrote y, whose notify
\* ran sync watcher 1, which subscribed to x while the notify of x held the
\* copy <<2>>
C26_Witness ==
  /\ pc = "idle"
  /\ Len(notifies) = 2
  /\ notifies[1] = [d |-> "x", snap |-> <<2>>, upd |-> <<2>>]
  /\ notifies[2] = [d |-> "y", snap |-> <<1>>, upd |-> <<1>>]
  /\ subs["x"] = <<2, 1>>
  /\ gets = <<2, 1>>

\* C27: update() of a lazy watcher sets dirty and does nothing else (no
\* getter runs, the queue is as it was); update() of a sync watcher runs it
\* within the call (its getter, if the watcher is active) and does not
\* queue it; update() of any other watcher runs no getter and no callback,
\* changes no watcher, member or subscription, and leaves the watcher
\* marked as queued.  No lazy or sync watcher is ever in the queue.
C27_Dispatch ==
  /\ \A i \in 1..Len(updates) :
       LET u == updates[i]
       IN /\ u.lazy => u.dirty /\ u.only /\ u.gets = 0 /\ u.queued = 0
          /\ (~u.lazy /\ u.sync) =>
               /\ u.queued = 0
               /\ u.active => u.own >= 1
               /\ ~u.active => u.gets = 0 /\ u.calls = 0
          /\ (~u.lazy /\ ~u.sync) =>
               u.gets = 0 /\ u.calls = 0 /\ u.quiet /\ u.has
                 /\ u.queued \in {0, 1}
  /\ \A i \in 1..Len(queue) : ~W[queue[i]].lazy /\ ~W[queue[i]].sync

\* the write x = 2 reached the lazy watcher 1 of the computed property,
\* which it only marked dirty, then the sync watcher 2, which it ran
C27_Witness ==
  /\ pc = "idle"
  /\ Len(updates) = 2
  /\ updates[1].w = 1 /\ updates[1].lazy /\ updates[1].only
  /\ updates[2].w = 2 /\ updates[2].sync /\ updates[2].own = 1
  /\ W[1].dirty /\ W[1].value = 1 /\ W[2].value = 2
  /\ gets = <<2>> /\ queue = <<>> /\ timers = 0

\* the entries of callbacks that are flushSchedulerQueue
FlushesIn(cbs) == Cardinality({j \in 1..Len(cbs) : cbs[j].k = "flush"})

\* C28: the step in which the loop of flushSchedulerQueue ends leaves the
\* queue and has empty, index 0, waiting and flushing false; whenever waiting
\* is false the scheduler is in that state, and the job that next calls
\* queueWatcher begins the queue with its watchers, all appended, and adds
\* exactly one flushSchedulerQueue to callbacks.
C28_AfterFlush ==
  (pc = "flush" /\ pc' # "flush") =>
     /\ queue' = <<>> /\ has' = {} /\ index' = 0
     /\ ~waiting' /\ ~flushing'

C28_Clean ==
  ~waiting => queue = <<>> /\ has = {} /\ index = 0 /\ ~flushing

C28_NextQueue ==
  (~waiting /\ waiting') =>
     /\ queue' # <<>>
     /\ \A j \in 1..Len(queue') : insAt'[j] = 0 /\ Count(queue', queue'[j]) = 1
     /\ has' = Range(queue')
     /\ FlushesIn(callbacks') = FlushesIn(callbacks) + 1
     /\ callbacks'[Len(callbacks')].k = "flush" \/ pc' # "idle"

C28_Reset ==
  []C28_Clean /\ [][C28_AfterFlush /\ C28_NextQueue]_vars

\* a flush ran watcher 1 and reset the scheduler; the next write of x queued
\* the watcher again and scheduled the second flush
C28_Witness ==
  /\ pc = "idle"
  /\ done = 1 /\ seq = 2
  /\ waiting /\ ~flushing /\ index = 0
  /\ queue = <<1>> /\ has = {1}
  /\ Len(callbacks) = 1 /\ callbacks[1].k = "flush" /\ callbacks[1].tag = 2
  /\ timers = 1
  /\ W[1].value = 2 /\ data["x"] = 1

\* C29: flushing is true exactly while the one flushSchedulerQueue call in
\* progress is in its loop, and at most one flushSchedulerQueue is scheduled
\* or in progress at any time.  flushSchedulerQueue is entered with flushing
\* false, index 0 and a queue of watchers queued since the last reset; it is
\* left only when every watcher of the queue has been reached (each active
\* one evaluated, has empty), with the scheduler state reset.
C29_OneFlush ==
  /\ flushing <=> pc = "flush"
  /\ FlushEntries <= 1
  /\ waiting <=> FlushEntries = 1

C29_Enter ==
  (pc # "flush" /\ pc' = "flush") =>
     /\ ~flushing /\ flushing'
     /\ index = 0 /\ has = Range(queue)
     /\ \A j \in 1..Len(queue) : insAt[j] = 0

C29_Leave ==
  (pc = "flush" /\ pc' # "flush") =>
     /\ index >= Len(queue) /\ has = {}
     /\ \A j \in 1..Len(queue) : W[queue[j]].active => queue[j] \in Range(gets)
     /\ ~flushing' /\ ~waiting' /\ queue' = <<>> /\ FlushEntries' = 0

C29_NoOverlap ==
  []C29_OneFlush /\ [][C29_Enter /\ C29_Leave]_vars

\* the flush of the first write of x has run watcher 1 and reset; the second
\* write queued it again, and the second flush has just been entered
C29_Witness ==
  /\ pc = "flush"
  /\ flushing /\ waiting
  /\ done = 2 /\ seq = 2
  /\ queue = <<1>> /\ index = 0 /\ has = {1}
  /\ gets = <<>>
  /\ Len(copies) = 1 /\ copies[1].tag = 2
  /\ W[1].value = 2 /\ data["x"] = 1

\* the watchers made by $watch after the computed property was defined whose
\* getter reads it
Outer ==
  {o \in 1..uid : /\ comp # 0 /\ o > comp /\ ~W[o].lazy /\ W[o].active
                  /\ W[o].getter \in {"c", "xc"}}

\* the notify() calls the step made
NewNotifies ==
  IF pc = "flush" THEN (Len(notifies) + 1)..Len(notifies')
                  ELSE 1..Len(notifies')

\* C30: a watcher whose evaluation read the computed property is, after the
\* evaluation, subscribed to every Dep in the deps of the property's lazy
\* watcher; and the notify of any such Dep reaches both: the lazy watcher is
\* marked dirty and update() is called on the outer watcher, which leaves it
\* queued (or has run it, if it is sync).
C30_Subscribed ==
  \A i \in 1..Len(creads) :
    LET r == creads[i]
    IN (r.by # NoTarget /\ W[r.by].active) =>
         \A k \in 1..Len(W[r.w].deps) :
           /\ r.w \in Range(subs[W[r.w].deps[k]])
           /\ r.by \in Range(subs[W[r.w].deps[k]])
           /\ W[r.w].deps[k] \in Range(W[r.by].deps)

C30_LaterWrite ==
  \A n \in NewNotifies :
    (comp # 0 /\ notifies'[n].d \in Range(W[comp].deps)) =>
       /\ comp \in Range(notifies'[n].snap)
       /\ \E j \in 1..Len(updates') :
            updates'[j].w = comp /\ updates'[j].dirty
       /\ \A o \in Outer :
            /\ o \in Range(notifies'[n].snap)
            /\ \E j \in 1..Len(updates') :
                 /\ updates'[j].w = o
                 /\ IF updates'[j].sync THEN updates'[j].own >= 1
                                        ELSE updates'[j].has

C30_Transitive ==
  []C30_Subscribed /\ [][C30_LaterWrite]_vars

\* watcher 2 read the computed property x + y of lazy watcher 1 and so
\* subscribed to x and y; the write y = 2 marked watcher 1 dirty and queued
\* watcher 2
C30_Witness ==
  /\ pc = "idle"
  /\ comp = 1 /\ uid = 2
  /\ W[1].getter = "sum" /\ W[2].getter = "c"
  /\ subs["x"] = <<1, 2>> /\ subs["y"] = <<1, 2>>
  /\ W[1].deps = <<"x", "y">> /\ W[2].deps = <<"y", "x">>
  /\ notifies = <<[d |-> "y", snap |-> <<1, 2>>, upd |-> <<1, 2>>]>>
  /\ W[1].dirty /\ queue = <<2>> /\ has = {2}

\* targetStack[targetStack.length - 1]
Top(st) == IF Len(st) = 0 THEN NoTarget ELSE st[Len(st)]

\* C31: Dep.target is the top entry of targetStack (nothing, if the stack is
\* empty), between operations and at every depend() call; so a read made
\* while a lazy watcher is being evaluated inside another watcher's getter
\* is registered with the lazy watcher, and the reads after that evaluation
\* are registered with the outer watcher again.
C31_TargetIsTop ==
  /\ target = Top(targetStack)
  /\ \A i \in 1..Len(depends) :
       /\ depends[i].t = Top(depends[i].stack)
       /\ depends[i].t # NoTarget => depends[i].d \in fired[depends[i].t]

\* watcher 2 evaluates "c + y" over the dirty computed property x: x is read
\* under watcher 1 on top of watcher 2, then watcher 1's Dep and y are
\* registered with watcher 2 alone on the stack
C31_Witness ==
  /\ pc = "idle"
  /\ depends = << [d |-> "x", t |-> 1, stack |-> <<2, 1>>],
                  [d |-> "x", t |-> 2, stack |-> <<2>>],
                  [d |-> "y", t |-> 2, stack |-> <<2>>] >>
  /\ subs["x"] = <<1, 2>> /\ subs["y"] = <<2>>
  /\ target = NoTarget /\ targetStack = <<>>

Tags(cbs) == [j \in 1..Len(cbs) |-> cbs[j].tag]

InBatch(p) == p \in {"cbs", "flush"}

\* C33: flushCallbacks clears pending and moves the whole of callbacks into
\* its copy before it runs any callback; while the batch runs the copy gets
\* no new entry, and an entry pushed meanwhile is in callbacks, behind a
\* single scheduled flushCallbacks, for which pending is true.
C33_Snapshot ==
  (pc = "idle" /\ pc' = "cbs") =>
     /\ ~pending' /\ callbacks' = <<>>
     /\ Tags(copies') = Tags(callbacks)
     /\ ci' = 0 /\ done' = done

C33_BatchFixed ==
  (InBatch(pc) /\ InBatch(pc')) =>
     /\ Tags(copies') = Tags(copies)
     /\ timers' \in {timers, timers + 1}
     /\ Len(callbacks') > Len(callbacks) => pending' /\ timers' = 1

C33_OneFlush ==
  /\ pending <=> callbacks # <<>>
  /\ timers = IF pending THEN 1 ELSE 0
  /\ \A i \in 1..Len(callbacks), j \in 1..Len(copies) :
       callbacks[i].tag > copies[j].tag

C33_LaterFlush ==
  []C33_OneFlush /\ [][C33_Snapshot /\ C33_BatchFixed]_vars

\* the two callbacks of the running batch have each called nextTick: their
\* callbacks wait in callbacks behind one scheduled flushCallbacks
C33_Witness ==
  /\ pc = "cbs" /\ ci = 2
  /\ Len(copies) = 2
  /\ copies[1].k = "usertick" /\ copies[2].k = "usertick"
  /\ Tags(callbacks) = <<3, 4>>
  /\ pending /\ timers = 1

\* the elements of array a, and of the arrays among them, and so on
RECURSIVE Elements(_, _)
Elements(h, a) ==
  UNION { {e} \cup (IF IsObject(e) /\ h[e].kind = "arr" THEN Elements(h, e)
                                                        ELSE {})
          : e \in Range(h[a].items) }

\* the active watchers whose getter reads the member of data named m
Reading(m) == {w \in 1..uid : W[w].active /\ W[w].getter = m}

\* watcher w is subscribed to the Dep of member m of data, to the Dep of the
\* Observer of the array a it holds and to the Dep of the Observer of every
\* observed element of a
ArraySubscribed(w, m, a) ==
  /\ w \in Range(subs[heap[ROOT].props[m].dep])
  /\ heap[a].ob => w \in Range(subs[heap[a].obdep])
  /\ \A e \in Elements(heap, a) :
       (IsObject(e) /\ heap[e].ob) => w \in Range(subs[heap[e].obdep])

\* C34 as stated: every watcher that read an array-valued member is
\* subscribed to the Deps of the observed elements of the array.
C34_Original ==
  \A m \in {"list", "fl"} : \A w \in Reading(m) :
    ArraySubscribed(w, m, heap[ROOT].props[m].val)

\* C34: a watcher that read a member whose array carries an Observer is
\* subscribed to the member's Dep, to the array's Observer Dep and to the
\* Observer Dep of every observed element, through nested arrays; a set()
\* that adds a member to such an element leaves the watcher queued.
C34_Subscribed ==
  \A m \in {"list", "fl"} : \A w \in Reading(m) :
    heap[heap[ROOT].props[m].val].ob =>
      ArraySubscribed(w, m, heap[ROOT].props[m].val)

C34_SetStep ==
  \A m \in {"list", "fl"} : \A w \in Reading(m) :
    LET a == heap[ROOT].props[m].val
    IN (/\ HeapCall({"set"})
        /\ heap[a].ob
        /\ op'.target \in Elements(heap, a)
        /\ op'.key \notin DOMAIN heap[op'.target].props)
       => /\ w \in has'
          /\ heap[op'.target].obdep \in Range(notified')
          /\ op'.key \in DOMAIN heap'[op'.target].props

C34_ArrayDeps ==
  []C34_Subscribed /\ [][C34_SetStep]_vars

\* watcher 1 read data.list = [{k: 1}, [{k: 1}]]; Vue.set gave the element
\* of the inner array the new member j, which queued the watcher
C34_Witness ==
  /\ pc = "idle" /\ uid = 1
  /\ W[1].getter = "list" /\ W[1].active
  /\ op.name = "set" /\ op.target = PLAIN /\ op.key = "j"
  /\ PLAIN \in Elements(heap, LIST) /\ PLAIN \notin Range(heap[LIST].items)
  /\ 1 \in Range(subs[heap[PLAIN].obdep])
  /\ notified = <<heap[PLAIN].obdep>>
  /\ queue = <<1>>

\* C36: whenever flushSchedulerQueue is left, by the end of its loop or by
\* an exception out of a watcher's run, waiting and flushing are false and
\* has is empty.
C36_Recovers ==
  [][(pc = "flush" /\ pc' # "flush") =>
       (~waiting' /\ ~flushing' /\ has' = {})]_vars

\* a flushSchedulerQueue is scheduled: waiting is true and the one entry for
\* it is either in callbacks, with pending true and a flushCallbacks due, or
\* ahead in the batch flushCallbacks is running
FlushScheduled ==
  /\ waiting
  /\ FlushEntries = 1
  /\ \/ /\ FlushesIn(callbacks) = 1 /\ pending /\ timers >= 1
     \/ /\ FlushesIn(callbacks) = 0 /\ pc = "cbs"

\* C35 as stated: whenever the queue is non-empty and flushSchedulerQueue
\* is not running, a flushSchedulerQueue is scheduled.
C35_Original ==
  (queue # <<>> /\ pc # "flush") => FlushScheduled

\* C35: as long as no exception has left flushSchedulerQueue or
\* flushCallbacks, a non-empty queue outside a flush has a
\* flushSchedulerQueue scheduled, and every watcher marked in has is
\* eventually taken from the queue to be run (or an exception leaves).
C35_Pending ==
  (aborted = {} /\ queue # <<>> /\ pc # "flush") => FlushScheduled

C35_Run ==
  \A w \in 1..MaxWatchers :
    (w \in has /\ aborted = {}) ~> (w \notin has \/ aborted # {})

C35_NoLoss == []C35_Pending /\ C35_Run

\* watcher 1 is queued by the write of x, with its flush scheduled
C35_Witness ==
  /\ pc = "idle" /\ aborted = {}
  /\ queue = <<1>> /\ has = {1} /\ W[1].active
  /\ waiting /\ pending /\ timers = 1
  /\ Len(callbacks) = 1 /\ callbacks[1].k = "flush"

\* the Deps whose subs hold watcher w
SubscribedTo(w) ==
  {d \in DOMAIN subs : w \in Range(subs[d])}

\* C37: once teardown() has been called on a watcher (active is false), the
\* watcher is in the subs of no Dep whenever an operation has completed.
C37_Permanent ==
  \A w \in 1..uid : ~W[w].active => SubscribedTo(w) = {}

\* the same for the watchers of $watch alone, and for the watcher of a
\* computed property alone
C37_Watch ==
  \A w \in 1..uid : (~W[w].active /\ ~W[w].lazy) => SubscribedTo(w) = {}

C37_Lazy ==
  \A w \in 1..uid : (~W[w].active /\ W[w].lazy) => SubscribedTo(w) = {}

\* the not-yet-dequeued part of queue: positions after index while
\* flushSchedulerQueue executes, the whole queue otherwise
NotDequeued == IF pc = "flush" THEN Ahead ELSE queue

\* C38: between the operations of the scheduler, has holds exactly the
\* watchers of the not-yet-dequeued part of queue, and that part holds no
\* watcher twice.
C38_Presence ==
  /\ has = Range(NotDequeued)
  /\ \A i, j \in 1..Len(NotDequeued) :
       NotDequeued[i] = NotDequeued[j] => i = j

\* the updates of watcher w logged after the first n that went to
\* queueWatcher
QueuedUpdates(w, n) ==
  {i \in (n + 1)..Len(updates') :
     updates'[i].w = w /\ ~updates'[i].lazy /\ ~updates'[i].sync}

\* C38, the re-invalidation: when the watcher an iteration of the flush
\* dequeued was handed to queueWatcher during its own run, it is in queue
\* once more, pending, behind the loop.
C38_Requeue ==
  [][(pc = "flush" /\ pc' = "flush" /\ index' = index + 1
        /\ QueuedUpdates(queue[index + 1], Len(updates)) # {})
     => /\ queue[index + 1] \in has'
        /\ Count(queue', queue[index + 1]) = Count(queue, queue[index + 1]) + 1
        /\ queue[index + 1] \in Range(SubSeq(queue', index' + 1, Len(queue')))
    ]_vars

\* the callback of watcher 1 wrote x, which watcher 1 reads, while the flush
\* ran watcher 1: it stands in queue a second time, pending
C38_Witness ==
  /\ pc = "flush" /\ index = 1
  /\ queue = <<1, 1>> /\ has = {1}
  /\ aborted = {}

\* every get() that threw or caught left Dep.target and the depth of
\* targetStack as it found them
GetBalanced ==
  \A e \in Range(throws) :
    e.depth1 = e.depth0 /\ e.target1 = e.target0

\* C39: every get(), handleError(), getData() and immediate callback left
\* targetStack and Dep.target as it found them, so between the operations
\* of the host targetStack is empty and Dep.target is unset.
C39_Balanced ==
  /\ GetBalanced
  /\ targetStack = <<>> /\ target = NoTarget

\* the same as long as handleError returns
C39_Returning ==
  ChainReturns => C39_Balanced

\* a step that calls set or del on a Vue instance or on an object whose
\* Observer has vmCount > 0, for set with a key the target does not have,
\* changes no object, calls no notify() and queues no watcher
C40_Step ==
  HeapCall({"set", "del"}) =>
    LET t == heap[op'.target]
    IN (/\ t.isVue \/ (t.ob /\ t.vmCount > 0)
        /\ op'.name = "set" => op'.key \notin DOMAIN t.props)
       => /\ heap' = heap
          /\ notified' = <<>> /\ notifies' = <<>>
          /\ subs' = subs /\ depUid' = depUid
          /\ queue' = queue

\* C40: set and del on a Vue instance or on root data, with a key not
\* already present for set, leave the target as it was and call no
\* notify(): the member is neither added, made reactive nor deleted.
C40_RootRefused ==
  [][C40_Step]_vars

\* del(data, 'n') on the root data while a watcher reads n: n is still
\* there and the watcher is not queued
C40_Witness ==
  /\ op.name = "del" /\ op.target = ROOT /\ op.key = "n"
  /\ heap[ROOT].vmCount > 0
  /\ "n" \in DOMAIN heap[ROOT].props
  /\ \E w \in 1..uid : W[w].getter = "n" /\ SubscribedTo(w) # {}
  /\ queue = <<>> /\ notified = <<>>

\* set(plain, 'j', 1) on a record observe(plain, true) made root data
C40_WitnessSet ==
  /\ op.name = "set" /\ op.target = PLAIN /\ op.key = "j"
  /\ heap[PLAIN].ob /\ heap[PLAIN].vmCount > 0
  /\ "j" \notin DOMAIN heap[PLAIN].props

====
